---- MODULE Spec2Model ----
(***************************************************************************)
(* A model of MyPhotoHelper's Python helpers: the screenshot detector      *)
(* (src/src/MyPhotoHelper/Python/screenshot_detector.py) and the database *)
(* migration runner (database_manager.py), the LLM metadata classifier    *)
(* (metadata_classifier.py) and the Samsung Frame TV upload test          *)
(* (samsung_tv/frame_uploader_test.py).                                    *)
(*                                                                         *)
(* Scores and confidences are Python floats in [0,1]; they are modelled   *)
(* as exact decimals in thousandths (0.95 is 950).  Every score used is a *)
(* multiple of 10 (a hundredth), so the products by 0.1, 0.2, 0.3 and 0.5 *)
(* are exact integers and \div never rounds.  The floats of the code      *)
(* differ from these decimals by rounding errors near 1e-16, which decide *)
(* a comparison only when the exact value lies on the threshold: no score *)
(* an analyzer returns and no confidence detect_screenshot computes does. *)
(* Strings are TLA+ strings; a character is a string of length 1.         *)
(***************************************************************************)
EXTENDS Integers, Sequences, FiniteSets, TLC

VARIABLES
    fn,          \* the entry point this run calls
    pc,          \* "call" before the entry point has run, "return" after
    image_path,  \* the image_path argument
    has_pil,     \* HAS_PIL_SUPPORT: whether PIL could be imported
    file,        \* what the file system holds at image_path
    scores,      \* the arguments of _calculate_final_confidence
    ret,         \* the value the entry point returned
    detector,    \* the attributes of the ScreenshotDetector instance in use
    fs,          \* the file system of a run with several paths: path -> file
    history,     \* the calls of detect_screenshot made so far, with results
    image_paths, \* the image_paths argument of batch_detect_screenshots
    results,     \* the results dictionary batch_detect_screenshots fills
    db,          \* the SQLite database file create_or_update_database works on
    scripts_dir, \* the database scripts directory: whether it exists, its names
    migration,   \* the frame of the current create_or_update_database call
    calls,       \* the frames of the calls that have returned
    metadata_list,  \* the metadata_list argument of classify_batch
    llm_response,   \* what the call of the LLM API gives
    batch_results,  \* the value classify_batch returned
    classifier_pc,  \* "call" before classify_batch has run, "return" after
    upload_env,     \* the token file, the TV, the image and MAX_RETRIES
    upload_loop,    \* the frame of auto_upload_loop (the main thread)
    upload_threads, \* the upload_thread of each attempt_upload call so far
    tv_images       \* the images the TV has received: the attempt of each

vars == <<fn, pc, image_path, has_pil, file, scores, ret,
          detector, fs, history, image_paths, results,
          db, scripts_dir, migration, calls,
          metadata_list, llm_response, batch_results, classifier_pc,
          upload_env, upload_loop, upload_threads, tv_images>>

(***************************************************************************)
(* Python values                                                           *)
(***************************************************************************)
None == "None"
EmptyDict == <<>>
NoArgs == <<>>
NotReturned == <<>>

Min(a, b) == IF a < b THEN a ELSE b
Abs(a) == IF a < 0 THEN -a ELSE a

(***************************************************************************)
(* Strings                                                                 *)
(***************************************************************************)
CharAt(s, i) == SubSeq(s, i, i)

UpperChars == "ABCDEFGHIJKLMNOPQRSTUVWXYZ"
LowerChars == "abcdefghijklmnopqrstuvwxyz"

UpperSet == { CharAt(UpperChars, k) : k \in 1..Len(UpperChars) }
LowerMap ==
    [ c \in UpperSet |->
        CharAt(LowerChars, CHOOSE k \in 1..Len(UpperChars) : CharAt(UpperChars, k) = c) ]

\* str.lower() on one character
LowerChar(c) == IF c \in UpperSet THEN LowerMap[c] ELSE c

RECURSIVE StrLower(_)
StrLower(s) == IF s = "" THEN "" ELSE LowerChar(Head(s)) \o StrLower(Tail(s))

\* os.path.basename (posixpath): what follows the last "/".  The paths of
\* this model hold no backslash and no drive letter, so ntpath agrees.
RECURSIVE basename(_)
basename(p) ==
    IF \E i \in 1..Len(p) : CharAt(p, i) = "/"
    THEN basename(SubSeq(p, (CHOOSE i \in 1..Len(p) : CharAt(p, i) = "/") + 1, Len(p)))
    ELSE p

(***************************************************************************)
(* The fragment of Python's re the detector's patterns use.  A pattern is *)
(* a sequence of elements: a literal string, or one / zero-or-more /      *)
(* at-most-one character of a class.                                      *)
(***************************************************************************)
Digits == {"0", "1", "2", "3", "4", "5", "6", "7", "8", "9"}
WhiteSpace == {" ", "\t", "\n", "\r", "\f"}

InClass(c, cls) ==
    CASE cls = "digit" -> c \in Digits            \* \d
      [] cls = "space" -> c \in WhiteSpace        \* \s
      [] cls = "sep"   -> c \in {"-", "_"}        \* [-_]
      [] cls = "dot"   -> c # "\n"                \* .

Lit(s)    == [kind |-> "lit",  s |-> s,  cls |-> ""]
One(cls)  == [kind |-> "one",  s |-> "", cls |-> cls]
Star(cls) == [kind |-> "star", s |-> "", cls |-> cls]
Opt(cls)  == [kind |-> "opt",  s |-> "", cls |-> cls]

\* pat[k..] matches a prefix of s[i..]
RECURSIVE MatchAt(_, _, _, _)
MatchAt(pat, k, s, i) ==
    IF k > Len(pat) THEN TRUE
    ELSE LET e == pat[k]
             here == i <= Len(s) /\ InClass(CharAt(s, i), e.cls)
         IN CASE e.kind = "lit" ->
                   /\ i + Len(e.s) - 1 <= Len(s)
                   /\ SubSeq(s, i, i + Len(e.s) - 1) = e.s
                   /\ MatchAt(pat, k + 1, s, i + Len(e.s))
              [] e.kind = "one" ->
                   here /\ MatchAt(pat, k + 1, s, i + 1)
              [] e.kind = "opt" ->
                   \/ (here /\ MatchAt(pat, k + 1, s, i + 1))
                   \/ MatchAt(pat, k + 1, s, i)
              [] e.kind = "star" ->
                   \/ MatchAt(pat, k + 1, s, i)
                   \/ (here /\ MatchAt(pat, k, s, i + 1))

\* re.Pattern.search: the pattern matches somewhere in s
Search(pat, s) == \E i \in 1..(Len(s) + 1) : MatchAt(pat, 1, s, i)

\* a pattern compiled with re.IGNORECASE; the patterns are all lower case
SearchIgnoreCase(pat, s) == Search(pat, StrLower(s))

(***************************************************************************)
(* ScreenshotDetector: the class tables                                    *)
(***************************************************************************)
\* \d{4}[-_]\d{1,2}[-_]\d{1,2}
DateRe ==
    << One("digit"), One("digit"), One("digit"), One("digit"), One("sep"),
       One("digit"), Opt("digit"), One("sep"), One("digit"), Opt("digit") >>

SCREENSHOT_PATTERNS ==
    << [src |-> "screenshot",     re |-> << Lit("screenshot") >>],
       [src |-> "screen\\s*shot", re |-> << Lit("screen"), Star("space"), Lit("shot") >>],
       [src |-> "capture",        re |-> << Lit("capture") >>],
       [src |-> "snip",           re |-> << Lit("snip") >>],
       [src |-> "clipboardimage", re |-> << Lit("clipboardimage") >>],
       [src |-> "shot",           re |-> << Lit("shot") >>],
       [src |-> "grab",           re |-> << Lit("grab") >>],
       [src |-> "print\\s*screen", re |-> << Lit("print"), Star("space"), Lit("screen") >>],
       [src |-> "prtsc",          re |-> << Lit("prtsc") >>],
       [src |-> "screenclip",     re |-> << Lit("screenclip") >> ] >>

\* faulty variant: the token and the date must touch, with at most one
\* separator between them (no ".*")
SCREENSHOT_DATE_PATTERNS_Adjacent ==
    << [src |-> "screenshot.*\\d{4}[-_]\\d{1,2}[-_]\\d{1,2}",
        re  |-> << Lit("screenshot"), Opt("dot") >> \o DateRe],
       [src |-> "screen\\s*shot.*\\d{4}[-_]\\d{1,2}[-_]\\d{1,2}",
        re  |-> << Lit("screen"), Star("space"), Lit("shot"), Opt("dot") >> \o DateRe],
       [src |-> "capture.*\\d{4}[-_]\\d{1,2}[-_]\\d{1,2}",
        re  |-> << Lit("capture"), Opt("dot") >> \o DateRe],
       [src |-> "\\d{4}[-_]\\d{1,2}[-_]\\d{1,2}.*screenshot",
        re  |-> DateRe \o << Opt("dot"), Lit("screenshot") >>] >>

SCREENSHOT_DATE_PATTERNS ==
    << [src |-> "screenshot.*\\d{4}[-_]\\d{1,2}[-_]\\d{1,2}",
        re  |-> << Lit("screenshot"), Star("dot") >> \o DateRe],
       [src |-> "screen\\s*shot.*\\d{4}[-_]\\d{1,2}[-_]\\d{1,2}",
        re  |-> << Lit("screen"), Star("space"), Lit("shot"), Star("dot") >> \o DateRe],
       [src |-> "capture.*\\d{4}[-_]\\d{1,2}[-_]\\d{1,2}",
        re  |-> << Lit("capture"), Star("dot") >> \o DateRe],
       [src |-> "\\d{4}[-_]\\d{1,2}[-_]\\d{1,2}.*screenshot",
        re  |-> DateRe \o << Star("dot"), Lit("screenshot") >>] >>

\* the software names are plain words: each is a pattern of one literal
SoftwareNames ==
    << "snagit", "lightshot", "greenshot", "puush", "gyazo", "screenshot",
       "capture", "snip", "spectacle", "flameshot", "scrot" >>

SCREENSHOT_SOFTWARE_PATTERNS ==
    [ k \in 1..Len(SoftwareNames) |->
        [src |-> SoftwareNames[k], re |-> << Lit(SoftwareNames[k]) >>] ]

\* re.compile(pattern, re.IGNORECASE) for every pattern of a table
Compiled(table) == [ k \in 1..Len(table) |-> table[k].re ]

\* ScreenshotDetector(): the attributes __init__ sets
ScreenshotDetector ==
    [ compiled_patterns          |-> Compiled(SCREENSHOT_PATTERNS),
      compiled_date_patterns     |-> Compiled(SCREENSHOT_DATE_PATTERNS),
      compiled_software_patterns |-> Compiled(SCREENSHOT_SOFTWARE_PATTERNS) ]

\* "for i, pattern in enumerate(compiled): if pattern.search(s):
\* matches.append(table[i])", from i = k on
RECURSIVE MatchedFrom(_, _, _, _)
MatchedFrom(compiled, table, k, s) ==
    IF k > Len(compiled) THEN << >>
    ELSE (IF SearchIgnoreCase(compiled[k], s) THEN << table[k].src >> ELSE << >>)
         \o MatchedFrom(compiled, table, k + 1, s)

Matched(compiled, table, s) == MatchedFrom(compiled, table, 1, s)

(***************************************************************************)
(* ScreenshotDetector._analyze_filename                                    *)
(***************************************************************************)
\* faulty variant: the date patterns are not looked at
FilenameConfidence_NoDateBranch(pattern_matches, date_matches) ==
    IF Len(pattern_matches) >= 2
    THEN [score |-> 900, reason |-> "multiple_patterns"]
    ELSE IF pattern_matches # << >>
    THEN [score |-> 850, reason |-> "single_pattern"]
    ELSE [score |-> 0, reason |-> "no_match"]

\* faulty variant: "multiple" taken as more than two generic patterns
FilenameConfidence_MoreThanTwo(pattern_matches, date_matches) ==
    IF date_matches # << >>
    THEN [score |-> 950, reason |-> "date_pattern"]
    ELSE IF Len(pattern_matches) > 2
    THEN [score |-> 900, reason |-> "multiple_patterns"]
    ELSE IF pattern_matches # << >>
    THEN [score |-> 850, reason |-> "single_pattern"]
    ELSE [score |-> 0, reason |-> "no_match"]

\* faulty variant: a single generic pattern scores 0.75
FilenameConfidence_SingleIsWeak(pattern_matches, date_matches) ==
    IF date_matches # << >>
    THEN [score |-> 950, reason |-> "date_pattern"]
    ELSE IF Len(pattern_matches) >= 2
    THEN [score |-> 900, reason |-> "multiple_patterns"]
    ELSE IF pattern_matches # << >>
    THEN [score |-> 750, reason |-> "single_pattern"]
    ELSE [score |-> 0, reason |-> "no_match"]

\* the if/elif chain that ends _analyze_filename
FilenameConfidence(pattern_matches, date_matches) ==
    IF date_matches # << >>
    THEN [score |-> 950, reason |-> "date_pattern"]
    ELSE IF Len(pattern_matches) >= 2
    THEN [score |-> 900, reason |-> "multiple_patterns"]
    ELSE IF pattern_matches # << >>
    THEN [score |-> 850, reason |-> "single_pattern"]
    ELSE [score |-> 0, reason |-> "no_match"]

AnalyzeFilename(self, path) ==
    LET filename == StrLower(basename(path))
        pattern_matches == Matched(self.compiled_patterns, SCREENSHOT_PATTERNS, filename)
        date_matches ==
            Matched(self.compiled_date_patterns, SCREENSHOT_DATE_PATTERNS, filename)
        c == FilenameConfidence(pattern_matches, date_matches)
    IN [ score   |-> c.score,
         details |-> [ filename              |-> filename,
                       patterns_matched      |-> pattern_matches,
                       date_patterns_matched |-> date_matches,
                       confidence_reason     |-> c.reason ] ]

(***************************************************************************)
(* ScreenshotDetector._analyze_resolution                                  *)
(***************************************************************************)
DESKTOP_RESOLUTIONS ==
    << <<1920, 1080, "Full HD">>, <<1366, 768, "HD Ready">>, <<1536, 864, "HD+">>,
       <<2560, 1440, "QHD">>, <<3840, 2160, "4K UHD">>, <<1440, 900, "WXGA+">>,
       <<1680, 1050, "WSXGA+">>, <<1280, 720, "HD">>, <<1280, 800, "WXGA">>,
       <<1024, 768, "XGA">>, <<1600, 900, "HD+">>, <<2048, 1152, "QWXGA">>,
       <<2880, 1620, "3K">>, <<5120, 2880, "5K">> >>

MOBILE_RESOLUTIONS ==
    << <<390, 844, "iPhone 12/13/14">>, <<393, 852, "iPhone 14 Pro">>,
       <<430, 932, "iPhone 14 Pro Max">>, <<414, 896, "iPhone 11/XR">>,
       <<375, 812, "iPhone X/11 Pro">>, <<375, 667, "iPhone 6/7/8">>,
       <<360, 800, "Android Common">>, <<412, 915, "Pixel 7">>,
       <<411, 891, "Galaxy S21">>, <<384, 854, "Galaxy S22">>,
       <<768, 1024, "iPad">>, <<834, 1194, "iPad Air">>,
       <<1024, 1366, "iPad Pro 12.9\"">> >>

\* resolution in table
InTable(table, w, h) == \E k \in 1..Len(table) : table[k][1] = w /\ table[k][2] = h
\* table[resolution]
TableName(table, w, h) ==
    table[CHOOSE k \in 1..Len(table) : table[k][1] = w /\ table[k][2] = h][3]

\* width / height if height > 0 else 0, as an exact fraction
AspectRatio(w, h) == IF h > 0 THEN [num |-> w, den |-> h] ELSE [num |-> 0, den |-> 1]

\* faulty variant: a tolerance of 0.1 instead of 0.01
RatioNear_Tenth(r, n, d) == 10 * Abs(r.num * d - n * r.den) < r.den * d

\* abs(aspect_ratio - n/d) < 0.01
RatioNear(r, n, d) == 100 * Abs(r.num * d - n * r.den) < r.den * d
\* aspect_ratio > 3.0 or aspect_ratio < 0.3
RatioUnusual(r) == r.num > 3 * r.den \/ 10 * r.num < 3 * r.den

\* details once width, height and aspect_ratio are stored
SizeDetails(w, h) ==
    [ width |-> w, height |-> h, resolution_match |-> None,
      aspect_ratio |-> AspectRatio(w, h), confidence_reason |-> "no_pil" ]

\* "Check exact matches with common resolutions", for a size in a table
ExactDesktop(w, h) ==
    [ score |-> 800,
      details |-> [ SizeDetails(w, h) EXCEPT
          !.resolution_match = "Desktop: " \o TableName(DESKTOP_RESOLUTIONS, w, h),
          !.confidence_reason = "exact_desktop_match" ] ]

ExactMobile(w, h) ==
    [ score |-> 750,
      details |-> [ SizeDetails(w, h) EXCEPT
          !.resolution_match = "Mobile: " \o TableName(MOBILE_RESOLUTIONS, w, h),
          !.confidence_reason = "exact_mobile_match" ] ]

\* "Check for common aspect ratios" and the default
AspectBucket(w, h) ==
    LET ratio == AspectRatio(w, h)
        d0 == SizeDetails(w, h)
    IN IF RatioNear(ratio, 16, 9)
       THEN [ score |-> 600,
              details |-> [ d0 EXCEPT !.confidence_reason = "16_9_aspect_ratio" ] ]
       ELSE IF RatioNear(ratio, 16, 10)
       THEN [ score |-> 550,
              details |-> [ d0 EXCEPT !.confidence_reason = "16_10_aspect_ratio" ] ]
       ELSE IF RatioNear(ratio, 4, 3)
       THEN [ score |-> 450,
              details |-> [ d0 EXCEPT !.confidence_reason = "4_3_aspect_ratio" ] ]
       ELSE IF RatioUnusual(ratio)
       THEN [ score |-> 100,
              details |-> [ d0 EXCEPT !.confidence_reason = "unusual_aspect_ratio" ] ]
       ELSE [ score |-> 300,
              details |-> [ d0 EXCEPT !.confidence_reason = "reasonable_dimensions" ] ]

\* faulty variant: the aspect ratios are looked at before the tables
ResolutionOfSize_RatioFirst(w, h) ==
    IF AspectBucket(w, h).score \in { 600, 550, 450 } THEN AspectBucket(w, h)
    ELSE IF InTable(DESKTOP_RESOLUTIONS, w, h) THEN ExactDesktop(w, h)
    ELSE IF InTable(MOBILE_RESOLUTIONS, w, h) THEN ExactMobile(w, h)
    ELSE AspectBucket(w, h)

\* the body of "with Image.open(image_path) as img" for an image of size (w, h)
ResolutionOfSize(w, h) ==
    IF InTable(DESKTOP_RESOLUTIONS, w, h) THEN ExactDesktop(w, h)
    ELSE IF InTable(MOBILE_RESOLUTIONS, w, h) THEN ExactMobile(w, h)
    ELSE AspectBucket(w, h)

\* what str(e) is when Image.open cannot decode the file
OpenError == "cannot identify image file"

AnalyzeResolution(pil, f) ==
    LET details == [ width |-> 0, height |-> 0, resolution_match |-> None,
                     aspect_ratio |-> AspectRatio(0, 0), confidence_reason |-> "no_pil" ]
    IN IF ~pil THEN [ score |-> 0, details |-> details ]
       ELSE IF f.kind # "image"
       THEN [ score |-> 0, details |-> details @@ ("error" :> OpenError) ]
       ELSE ResolutionOfSize(f.width, f.height)

(***************************************************************************)
(* ScreenshotDetector._analyze_metadata                                    *)
(*                                                                         *)
(* The EXIF of an image is the sequence of its (tag name, value) entries   *)
(* in the order exif.items() yields them; a tag occurs at most once.       *)
(***************************************************************************)
camera_fields == { "Make", "Model", "LensModel", "LensMake" }

\* faulty variant: a tag counts as soon as it is there, empty or not
Truthy_AnyValue(value) == TRUE

\* bool(value) of a tag value (a string)
Truthy(value) == value # ""

\* some compiled software pattern is found in software_info
IsScreenshotSoftware(self, software_info) ==
    \E k \in 1..Len(self.compiled_software_patterns) :
        SearchIgnoreCase(self.compiled_software_patterns[k], software_info)

\* faulty variant: a camera tag ends the scan, so that a Software tag that
\* comes after it is never looked at
RECURSIVE ExifLoop_CameraTagEndsScan(_, _, _, _, _)
ExifLoop_CameraTagEndsScan(self, exif, k, has_camera_info, details) ==
    IF k > Len(exif)
    THEN [ score |-> 500,
           details |-> [ details EXCEPT !.confidence_reason = "no_camera_info" ] ]
    ELSE LET tag_name == exif[k].tag
             value == exif[k].value
         IN IF tag_name \in camera_fields /\ Truthy(value)
            THEN [ score |-> 200,
                   details |-> [ details EXCEPT !.has_camera_info = TRUE,
                                                !.confidence_reason = "has_camera_info" ] ]
            ELSE IF tag_name = "Software" /\ Truthy(value)
            THEN IF IsScreenshotSoftware(self, StrLower(value))
                 THEN [ score |-> 900,
                        details |-> [ details EXCEPT
                            !.software_info = value,
                            !.screenshot_software_detected = TRUE,
                            !.confidence_reason = "screenshot_software" ] ]
                 ELSE ExifLoop_CameraTagEndsScan(self, exif, k + 1, FALSE,
                          [ details EXCEPT !.software_info = value ])
            ELSE ExifLoop_CameraTagEndsScan(self, exif, k + 1, FALSE, details)

\* "for tag_id, value in exif.items()" from entry k on, and what follows the loop
RECURSIVE ExifLoop(_, _, _, _, _)
ExifLoop(self, exif, k, has_camera_info, details) ==
    IF k > Len(exif)
    THEN IF ~has_camera_info
         THEN [ score |-> 500,
                details |-> [ details EXCEPT !.has_camera_info = has_camera_info,
                                             !.confidence_reason = "no_camera_info" ] ]
         ELSE [ score |-> 200,
                details |-> [ details EXCEPT !.has_camera_info = has_camera_info,
                                             !.confidence_reason = "has_camera_info" ] ]
    ELSE LET tag_name == exif[k].tag
             value == exif[k].value
             camera == has_camera_info \/ (tag_name \in camera_fields /\ Truthy(value))
         IN IF tag_name = "Software" /\ Truthy(value)
            THEN IF IsScreenshotSoftware(self, StrLower(value))
                 THEN [ score |-> 900,
                        details |-> [ details EXCEPT
                            !.software_info = value,
                            !.screenshot_software_detected = TRUE,
                            !.confidence_reason = "screenshot_software" ] ]
                 ELSE ExifLoop(self, exif, k + 1, camera,
                               [ details EXCEPT !.software_info = value ])
            ELSE ExifLoop(self, exif, k + 1, camera, details)

\* what str(e) is when img.getexif() cannot read the EXIF block
ExifError == "corrupt EXIF data"

AnalyzeMetadata(self, pil, f) ==
    LET details == [ has_exif |-> FALSE, has_camera_info |-> FALSE,
                     software_info |-> None, screenshot_software_detected |-> FALSE,
                     confidence_reason |-> "no_pil" ]
    IN IF ~pil THEN [ score |-> 0, details |-> details ]
       ELSE IF f.kind # "image"
       THEN [ score |-> 0, details |-> details @@ ("error" :> OpenError) ]
       ELSE IF ~f.exif_ok
       THEN [ score |-> 0, details |-> details @@ ("error" :> ExifError) ]
       ELSE IF f.exif = << >>
       THEN [ score |-> 600,
              details |-> [ details EXCEPT !.confidence_reason = "no_exif_data" ] ]
       ELSE ExifLoop(self, f.exif, 1, FALSE, [ details EXCEPT !.has_exif = TRUE ])

(***************************************************************************)
(* ScreenshotDetector._calculate_final_confidence                          *)
(***************************************************************************)
\* "Boost confidence if multiple methods agree"
AgreementBonus(filename_score, resolution_score, metadata_score) ==
    LET scores3 == << filename_score, resolution_score, metadata_score >>
        high_scores == { k \in 1..3 : scores3[k] > 500 }
    IN IF Cardinality(high_scores) >= 2 THEN 100
       ELSE IF Cardinality(high_scores) >= 3 THEN 150
       ELSE 0

\* faulty variant: the result is not clamped to 1.0
CalculateFinalConfidence_NoClamp(filename_score, resolution_score, metadata_score) ==
    IF filename_score > 800
    THEN filename_score + (resolution_score \div 10) + (metadata_score \div 10)
    ELSE ((filename_score * 5 + resolution_score * 3 + metadata_score * 2) \div 10)
         + AgreementBonus(filename_score, resolution_score, metadata_score)

\* faulty variant: no priority for a strong filename score
CalculateFinalConfidence_AlwaysWeighted(filename_score, resolution_score, metadata_score) ==
    Min(1000, ((filename_score * 5 + resolution_score * 3 + metadata_score * 2) \div 10)
              + AgreementBonus(filename_score, resolution_score, metadata_score))

\* faulty variant: the priority branch leaves the filename score out of the sum
CalculateFinalConfidence_DropsFilename(filename_score, resolution_score, metadata_score) ==
    IF filename_score > 800
    THEN Min(1000, (resolution_score \div 10) + (metadata_score \div 10))
    ELSE Min(1000, ((filename_score * 5 + resolution_score * 3 + metadata_score * 2) \div 10)
                   + AgreementBonus(filename_score, resolution_score, metadata_score))

\* faulty variant: the three scores are added without their weights
CalculateFinalConfidence_Unweighted(filename_score, resolution_score, metadata_score) ==
    IF filename_score > 800
    THEN Min(1000, filename_score + (resolution_score \div 10) + (metadata_score \div 10))
    ELSE Min(1000, filename_score + resolution_score + metadata_score
                   + AgreementBonus(filename_score, resolution_score, metadata_score))

CalculateFinalConfidence(filename_score, resolution_score, metadata_score) ==
    IF filename_score > 800
    THEN Min(1000, filename_score + (resolution_score \div 10) + (metadata_score \div 10))
    ELSE LET weighted_score ==
                 (filename_score * 5 + resolution_score * 3 + metadata_score * 2) \div 10
             agreement_bonus ==
                 AgreementBonus(filename_score, resolution_score, metadata_score)
         IN Min(1000, weighted_score + agreement_bonus)

(***************************************************************************)
(* ScreenshotDetector.detect_screenshot                                    *)
(***************************************************************************)
\* os.path.exists(image_path)
Exists(f) == f.kind # "absent"

\* faulty variant: the resolution alone is tested before the pair
DetectionMethod_ResolutionBeforePair(filename_score, resolution_score, metadata_score) ==
    IF filename_score > 800 THEN "filename"
    ELSE IF resolution_score > 700 THEN "resolution"
    ELSE IF resolution_score > 600 /\ metadata_score > 500 THEN "resolution_metadata"
    ELSE IF metadata_score > 600 THEN "metadata"
    ELSE "heuristic"

DetectionMethod(filename_score, resolution_score, metadata_score) ==
    IF filename_score > 800 THEN "filename"
    ELSE IF resolution_score > 600 /\ metadata_score > 500 THEN "resolution_metadata"
    ELSE IF resolution_score > 700 THEN "resolution"
    ELSE IF metadata_score > 600 THEN "metadata"
    ELSE "heuristic"

\* faulty variant: the verdict threshold is 0.85
IsScreenshot_Threshold085(final_confidence) == final_confidence > 850

\* is_screenshot = final_confidence > 0.75
IsScreenshot(final_confidence) == final_confidence > 750

\* the details dictionary detect_screenshot starts from
InitialDetails ==
    [ filename_analysis |-> EmptyDict, resolution_analysis |-> EmptyDict,
      metadata_analysis |-> EmptyDict, final_scores |-> EmptyDict,
      detection_method |-> "none", error |-> None ]

\* faulty variant: the first analyzer that fails ends the detection
DetectLayers_AbortsOnAnalyzerError(self, path, pil, f) ==
    LET fa == AnalyzeFilename(self, path)
        ra == AnalyzeResolution(pil, f)
        ma == AnalyzeMetadata(self, pil, f)
        final_confidence == CalculateFinalConfidence(fa.score, ra.score, ma.score)
        failed == "error" \in DOMAIN ra.details \/ "error" \in DOMAIN ma.details
    IN IF failed
       THEN [ is_screenshot |-> FALSE, confidence |-> 0,
              details |-> [ InitialDetails EXCEPT
                  !.filename_analysis = fa.details,
                  !.resolution_analysis = ra.details,
                  !.metadata_analysis = ma.details,
                  !.final_scores = [ filename_score |-> fa.score,
                                     resolution_score |-> ra.score,
                                     metadata_score |-> ma.score,
                                     final_confidence |-> 0 ],
                  !.error = IF "error" \in DOMAIN ra.details
                            THEN ra.details.error ELSE ma.details.error ] ]
       ELSE [ is_screenshot |-> IsScreenshot(final_confidence),
              confidence |-> final_confidence,
              details |-> [ InitialDetails EXCEPT
                  !.filename_analysis = fa.details,
                  !.resolution_analysis = ra.details,
                  !.metadata_analysis = ma.details,
                  !.detection_method = DetectionMethod(fa.score, ra.score, ma.score),
                  !.final_scores = [ filename_score |-> fa.score,
                                     resolution_score |-> ra.score,
                                     metadata_score |-> ma.score,
                                     final_confidence |-> final_confidence ] ] ]

\* detect_screenshot past the existence check: the three layers, the
\* combined score, the method and the verdict
DetectLayers(self, path, pil, f) ==
    LET fa == AnalyzeFilename(self, path)
        ra == AnalyzeResolution(pil, f)
        ma == AnalyzeMetadata(self, pil, f)
        final_confidence == CalculateFinalConfidence(fa.score, ra.score, ma.score)
    IN [ is_screenshot |-> IsScreenshot(final_confidence),
         confidence |-> final_confidence,
         details |-> [ InitialDetails EXCEPT
             !.filename_analysis = fa.details,
             !.resolution_analysis = ra.details,
             !.metadata_analysis = ma.details,
             !.detection_method = DetectionMethod(fa.score, ra.score, ma.score),
             !.final_scores = [ filename_score |-> fa.score,
                                resolution_score |-> ra.score,
                                metadata_score |-> ma.score,
                                final_confidence |-> final_confidence ] ] ]

\* a detect_screenshot that does not look whether the file exists
DetectScreenshot_NoExistsCheck(self, path, pil, f) == DetectLayers(self, path, pil, f)

DetectScreenshot(self, path, pil, f) ==
    IF ~Exists(f)
    THEN [ is_screenshot |-> FALSE, confidence |-> 0,
           details |-> [ InitialDetails EXCEPT !.error = "File not found" ] ]
    ELSE DetectLayers(self, path, pil, f)

\* faulty variant: the compiled patterns are iterators (map objects) that
\* the first call uses up
DetectorAfterCall_PatternsUsedUp(self) ==
    [ self EXCEPT !.compiled_patterns = << >>, !.compiled_date_patterns = << >> ]

\* the attributes of self after detect_screenshot: neither it nor an analyzer
\* assigns to an attribute of self
DetectorAfterCall(self) == self

\* the module-level detect_screenshot(image_path): a new detector each call
detect_screenshot(path, pil, f) == DetectScreenshot(ScreenshotDetector, path, pil, f)

(***************************************************************************)
(* batch_detect_screenshots.  A Python dict keeps its keys in the order    *)
(* they were first inserted: it is the sequence of its (key, value) items. *)
(***************************************************************************)
DictKeys(d) == [ k \in 1..Len(d) |-> d[k].key ]

DictHas(d, key) == \E k \in 1..Len(d) : d[k].key = key

DictGet(d, key) == d[CHOOSE k \in 1..Len(d) : d[k].key = key].value

\* faulty variant: every assignment adds an item
DictSet_AlwaysAppends(d, key, value) == Append(d, [key |-> key, value |-> value])

\* d[key] = value
DictSet(d, key, value) ==
    IF DictHas(d, key)
    THEN [ k \in 1..Len(d) |->
             IF d[k].key = key THEN [key |-> key, value |-> value] ELSE d[k] ]
    ELSE Append(d, [key |-> key, value |-> value])

(***************************************************************************)
(* Inputs: file names                                                      *)
(***************************************************************************)
\* a generated base name is at most MaxNameParts fragments long
MaxNameParts == 3

NameFragments ==
    { "Screenshot", "Screen Shot", "capture", "snip", "2024-01-27", "_", "IMG", "2024" }

RECURSIVE NamesOfParts(_)
NamesOfParts(n) ==
    IF n = 0 THEN { "" }
    ELSE { f \o rest : f \in NameFragments, rest \in NamesOfParts(n - 1) }

GeneratedNames ==
    { n \o ".png" : n \in UNION { NamesOfParts(k) : k \in 1..MaxNameParts } }

\* the names the repository's tests and __main__ use, and one name for each
\* generic pattern the fragments do not spell
FixedNames ==
    { "screenshot_2024-01-27.png", "Screen Shot 2024-01-27 at 10.30.45 AM.png",
      "image_2024-01-27_capture.jpg", "snip_001.png", "snip_2024.png",
      "capture_001.png", "IMG_1234.jpg", "vacation_photo.jpg",
      "family_dinner.png", "family_vacation.jpg", "file.jpg",
      "Screenshot 2024_1_7.png", "screenshot 24-01-27.png",
      "ClipboardImage.png", "snapshot.jpg", "grab.png", "Print Screen.png",
      "PrtSc.png", "screenclip.png", "SCREEN\tSHOT.PNG", "",
      "Screenshot_2024-01-27.png", "snip_2024-01-27.png", "2024-01-27 grab.png",
      "Screenshot\n2024-01-27.png", "2024-01-27_capture.png" }

\* the second directory name holds a tool token and a date itself
Dirs == { "/fake/path/", "/Screenshots/2024-01-27/" }

\* every name under a directory, and the tests' names also without one
AllPaths ==
    { d \o n : d \in Dirs, n \in GeneratedNames \cup FixedNames }
    \cup FixedNames

(***************************************************************************)
(* Inputs: image sizes                                                     *)
(***************************************************************************)
TableDims(table) == { table[k][c] : k \in 1..Len(table), c \in 1..2 }

\* every width and height of the two tables, the sizes the tests use, and
\* sizes at the edges of the aspect-ratio buckets
DimValues ==
    TableDims(DESKTOP_RESOLUTIONS) \cup TableDims(MOBILE_RESOLUTIONS)
    \cup { 0, 1, 3, 10, 100, 299, 300, 301, 600, 750, 1000, 1323, 1324, 1334,
           1343, 1344, 1590, 1591, 1600, 1609, 1610, 1767, 1768, 1778, 1787,
           1788, 2304, 3000, 3001, 3456, 4000 }

(***************************************************************************)
(* Inputs: files                                                           *)
(***************************************************************************)
NoFile == [kind |-> "absent"]
\* a file that exists and that Image.open cannot decode
Undecodable == [kind |-> "undecodable"]

ImageFile(w, h, exif) ==
    [kind |-> "image", width |-> w, height |-> h, exif_ok |-> TRUE, exif |-> exif]
\* an image whose EXIF block img.getexif() cannot read
CorruptExifFile(w, h) ==
    [kind |-> "image", width |-> w, height |-> h, exif_ok |-> FALSE, exif |-> << >>]

NoExif == << >>
Tag(tag, value) == [tag |-> tag, value |-> value]

AllSizes == { ImageFile(w, h, NoExif) : w \in DimValues, h \in DimValues }

\* one size at least for every outcome of _analyze_resolution
SampleSizes ==
    { <<1920, 1080>>, <<1024, 768>>, <<768, 1024>>, <<390, 844>>, <<1080, 1920>>,
      <<3000, 1687>>, <<1600, 1000>>, <<800, 600>>, <<4000, 3000>>, <<3456, 2304>>,
      <<750, 1334>>, <<4000, 1000>>, <<100, 1000>>, <<100, 0>> }

\* one EXIF at least for every outcome of _analyze_metadata
SampleExifs ==
    { NoExif,
      << Tag("Make", "Canon"), Tag("Model", "EOS 80D") >>,
      << Tag("Orientation", "1") >>,
      << Tag("Software", "Adobe Photoshop") >>,
      << Tag("Software", "Adobe Photoshop"), Tag("LensModel", "EF50mm") >>,
      << Tag("Software", "Lightshot") >>,
      << Tag("Make", "Canon"), Tag("Software", "LightShot 5.0") >>,
      << Tag("Software", "Greenshot"), Tag("LensMake", "Canon") >>,
      << Tag("Make", ""), Tag("Software", "") >> }

\* a generated EXIF holds at most MaxExifTags tags
MaxExifTags == 3

\* the values a tag of a generated EXIF takes: the four camera fields (Make
\* also empty), Software (empty, two screenshot tools, two other programs)
\* and a tag the analyzer does not look at
ExifTagValues ==
    [ Make        |-> { "", "Canon" },
      Model       |-> { "EOS 80D" },
      LensModel   |-> { "EF50mm" },
      LensMake    |-> { "Sigma" },
      Software    |-> { "", "Lightshot", "GREENSHOT 1.2", "Adobe Photoshop", "GIMP" },
      Orientation |-> { "1" } ]

TagsOf(exif) == { exif[k].tag : k \in 1..Len(exif) }

\* the EXIFs of n tags, in every order exif.items() may yield them
RECURSIVE ExifsOfLen(_)
ExifsOfLen(n) ==
    IF n = 0 THEN { NoExif }
    ELSE UNION { UNION { { Append(e, Tag(tg, v)) : v \in ExifTagValues[tg] } :
                         tg \in DOMAIN ExifTagValues \ TagsOf(e) } :
                 e \in ExifsOfLen(n - 1) }

GeneratedExifs == UNION { ExifsOfLen(n) : n \in 0..MaxExifTags }

SampleFiles ==
    { NoFile, Undecodable }
    \cup { ImageFile(s[1], s[2], e) : s \in SampleSizes, e \in SampleExifs }
    \cup { CorruptExifFile(s[1], s[2]) : s \in SampleSizes }

SamplePaths == { d \o n : d \in Dirs, n \in FixedNames } \cup { "" }

(***************************************************************************)
(* Inputs: runs of several calls                                           *)
(***************************************************************************)
\* a session makes at most MaxCalls calls of detect_screenshot
MaxCalls == 2

\* batch_detect_screenshots is given at most MaxBatch paths
MaxBatch == 3

SessionPaths == { "/fake/path/screenshot_2024-01-27.png", "/fake/path/IMG_1234.jpg" }

BatchPaths == SessionPaths \cup { "/fake/path/capture_001.png" }

\* what may be at a path: nothing, a file PIL cannot decode, a screen-sized
\* image written by a screenshot tool
SessionFiles ==
    { NoFile, Undecodable, ImageFile(1920, 1080, << Tag("Software", "Lightshot") >>) }

BatchFiles == { NoFile, ImageFile(1920, 1080, NoExif) }

RECURSIVE ListsOfLen(_, _)
ListsOfLen(S, n) ==
    IF n = 0 THEN { << >> }
    ELSE { Append(l, x) : l \in ListsOfLen(S, n - 1), x \in S }

BatchLists == UNION { ListsOfLen(BatchPaths, n) : n \in 0..MaxBatch }

(***************************************************************************)
(* Inputs: scores                                                          *)
(***************************************************************************)
\* the grid of scores _calculate_final_confidence is called with has a
\* point every ScoreStep hundredths
ScoreStep == 5

FilenameScores == { 0, 850, 900, 950 }
ResolutionScores == { 0, 100, 300, 450, 550, 600, 750, 800 }
MetadataScores == { 0, 200, 500, 600, 900 }

ScoreValues ==
    { 10 * ScoreStep * k : k \in 0..(100 \div ScoreStep) }
    \cup FilenameScores \cup ResolutionScores \cup MetadataScores
    \cup { 10, 490, 510, 740, 760, 790, 810, 990, 1000 }

(***************************************************************************)
(* The runs.  A run of Spec, SpecFilename, SpecResolution, SpecMetadata or *)
(* SpecCombiner calls one entry point once, on a detector as __init__      *)
(* built it.  SpecSession and SpecBatch make several calls, and carry the  *)
(* detector, the file system and the calls made from one call to the next. *)
(***************************************************************************)
(***************************************************************************)
(* metadata_classifier.py: JSON values as Python holds them.  A value has *)
(* a type t; a string has its text s, a number its value n (a float in    *)
(* thousandths), a list its items, a dict its (key, value) items in       *)
(* insertion order.                                                        *)
(***************************************************************************)
JNull == [t |-> "null", s |-> "", n |-> 0, items |-> << >>]
JTrue == [t |-> "bool", s |-> "", n |-> 1, items |-> << >>]
JNum(n) == [t |-> "num", s |-> "", n |-> n, items |-> << >>]
JStr(s) == [t |-> "str", s |-> s, n |-> 0, items |-> << >>]
JList(items) == [t |-> "list", s |-> "", n |-> 0, items |-> items]
JDict(items) == [t |-> "dict", s |-> "", n |-> 0, items |-> items]
Item(key, value) == [key |-> key, value |-> value]

\* the outcome of a Python expression: the exception it raises or its value
Value(v) == [raised |-> None, value |-> v]
Raise(e) == [raised |-> e, value |-> JNull]

\* sub in s, for two str
IsSubstring(sub, s) ==
    \E i \in 1..(Len(s) - Len(sub) + 1) : SubSeq(s, i, i + Len(sub) - 1) = sub

\* len(v)
PyLen(v) ==
    IF v.t \in { "list", "dict" } THEN [raised |-> None, value |-> Len(v.items)]
    ELSE IF v.t = "str" THEN [raised |-> None, value |-> Len(v.s)]
    ELSE [raised |-> "TypeError", value |-> 0]

\* key in v, for a str key
PyContains(key, v) ==
    CASE v.t = "dict" -> [raised |-> None, value |-> DictHas(v.items, key)]
      [] v.t = "str"  -> [raised |-> None, value |-> IsSubstring(key, v.s)]
      [] v.t = "list" ->
           [raised |-> None, value |-> \E k \in 1..Len(v.items) : v.items[k] = JStr(key)]
      [] OTHER -> [raised |-> "TypeError", value |-> FALSE]

\* v[key] = value, for a str key
PySetItem(v, key, value) ==
    IF v.t = "dict" THEN Value(JDict(DictSet(v.items, key, value)))
    ELSE Raise("TypeError")

\* v[key], for a str key
PyGetItem(v, key) ==
    IF v.t = "dict"
    THEN IF DictHas(v.items, key) THEN Value(DictGet(v.items, key)) ELSE Raise("KeyError")
    ELSE Raise("TypeError")

\* the values "for result in v" yields: the items of a list, the keys of a
\* dict, the characters of a str
PyIter(v) ==
    CASE v.t = "list" -> v.items
      [] v.t = "dict" -> [ k \in 1..Len(v.items) |-> JStr(v.items[k].key) ]
      [] v.t = "str"  -> [ k \in 1..Len(v.s) |-> JStr(CharAt(v.s, k)) ]

\* v[:count]
PySlice(v, count) ==
    CASE v.t = "list" -> Value(JList(SubSeq(v.items, 1, Min(count, Len(v.items)))))
      [] v.t = "str"  -> Value(JStr(SubSeq(v.s, 1, Min(count, Len(v.s)))))
      [] OTHER -> Raise("TypeError")

\* str.lstrip(), str.rstrip()
RECURSIVE LStrip(_)
LStrip(s) == IF s # "" /\ Head(s) \in WhiteSpace THEN LStrip(Tail(s)) ELSE s
RECURSIVE RStrip(_)
RStrip(s) ==
    IF s # "" /\ CharAt(s, Len(s)) \in WhiteSpace THEN RStrip(SubSeq(s, 1, Len(s) - 1)) ELSE s

\* the three backquotes of a markdown fence; a TLA+ string cannot hold a
\* backquote, so a tilde stands for it
Fence == "~~~"

StartsWith(s, p) == Len(s) >= Len(p) /\ SubSeq(s, 1, Len(p)) = p
EndsWith(s, p) == Len(s) >= Len(p) /\ SubSeq(s, Len(s) - Len(p) + 1, Len(s)) = p

(***************************************************************************)
(* MetadataClassifier: the response of the LLM.  _call_llm raises, or     *)
(* returns the content of the first choice: None, or a text that is the   *)
(* text of a JSON value, or text that is no JSON, between what precedes   *)
(* and what follows it (a markdown fence).                                 *)
(***************************************************************************)
Garbage == [t |-> "garbage", s |-> "", n |-> 0, items |-> << >>]

ApiFailure == [kind |-> "failure", pre |-> "", body |-> JNull, post |-> ""]
NoContent == [kind |-> "no_content", pre |-> "", body |-> JNull, post |-> ""]
Content(pre, body, post) == [kind |-> "content", pre |-> pre, body |-> body, post |-> post]

\* the results the code makes up
ErrorResult ==
    JDict(<< Item("category", JStr("unknown")), Item("confidence", JNum(0)),
             Item("error", JTrue) >>)
MissingResult ==
    JDict(<< Item("category", JStr("unknown")), Item("confidence", JNum(0)),
             Item("reasoning", JStr("Missing from batch response")) >>)

\* [{...} for _ in range(count)]
ErrorResults(count) == JList([ k \in 1..count |-> ErrorResult ])

\* lines 259-267: the response without its fence, parsed by json.loads
LoadCleaned(response) ==
    LET pre0 == LStrip(response.pre)
        post0 == RStrip(response.post)
        pre1 == IF StartsWith(pre0, Fence \o "json") THEN SubSeq(pre0, 8, Len(pre0)) ELSE pre0
        pre2 == IF StartsWith(pre1, Fence) THEN SubSeq(pre1, 4, Len(pre1)) ELSE pre1
        post1 == IF EndsWith(post0, Fence) THEN SubSeq(post0, 1, Len(post0) - 3) ELSE post0
    IN IF LStrip(pre2) = "" /\ RStrip(post1) = "" /\ response.body # Garbage
       THEN Value(response.body)
       ELSE Raise("JSONDecodeError")

\* lines 273-278: while len(results) < expected_count: results.append({...})
RECURSIVE PadResults(_, _)
PadResults(parsed, expected_count) ==
    LET length == PyLen(parsed)
    IN IF length.raised # None THEN Raise(length.raised)
       ELSE IF length.value < expected_count
       THEN IF parsed.t = "list"
            THEN PadResults(JList(Append(parsed.items, MissingResult)), expected_count)
            ELSE Raise("AttributeError")
       ELSE Value(parsed)

\* if key not in result: result[key] = default
SetDefault(outcome, key, default) ==
    IF outcome.raised # None THEN outcome
    ELSE LET has == PyContains(key, outcome.value)
         IN IF has.raised # None THEN Raise(has.raised)
            ELSE IF ~has.value THEN PySetItem(outcome.value, key, default)
            ELSE outcome

ValidCategories == { JStr("photo"), JStr("screenshot"), JStr("unknown") }

\* lines 282-289: the body of the validation loop
ValidateResult(result) ==
    LET defaults ==
            SetDefault(SetDefault(SetDefault(Value(result),
                "category", JStr("unknown")),
                "confidence", JNum(500)),
                "reasoning", JStr("No reasoning provided"))
    IN IF defaults.raised # None THEN defaults
       ELSE LET category == PyGetItem(defaults.value, "category")
            IN IF category.raised # None THEN Raise(category.raised)
               ELSE IF category.value \notin ValidCategories
               THEN PySetItem(defaults.value, "category", JStr("unknown"))
               ELSE defaults

\* lines 281-289: the validation loop over the first k values; a list holds
\* its results by reference, so validating changes its items
RECURSIVE ValidateResults(_, _)
ValidateResults(parsed, k) ==
    IF k = 0 THEN Value(parsed)
    ELSE LET before == ValidateResults(parsed, k - 1)
         IN IF before.raised # None THEN before
            ELSE LET one == ValidateResult(PyIter(before.value)[k])
                 IN IF one.raised # None THEN Raise(one.raised)
                    ELSE IF before.value.t = "list"
                    THEN Value(JList([ before.value.items EXCEPT ![k] = one.value ]))
                    ELSE before

\* MetadataClassifier._parse_batch_response(response, expected_count)
ParseBatchResponse(response, expected_count) ==
    LET loaded == IF response.kind = "no_content" THEN Raise("AttributeError")
                  ELSE LoadCleaned(response)
        length == IF loaded.raised # None THEN [raised |-> loaded.raised, value |-> 0]
                  ELSE PyLen(loaded.value)
        padded == IF length.raised # None THEN Raise(length.raised)
                  ELSE IF length.value # expected_count
                  THEN PadResults(loaded.value, expected_count)
                  ELSE loaded
        validated == IF padded.raised # None THEN padded
                     ELSE ValidateResults(padded.value, Len(PyIter(padded.value)))
        sliced == IF validated.raised # None THEN validated
                  ELSE PySlice(validated.value, expected_count)
    IN IF sliced.raised # None THEN ErrorResults(expected_count)
       ELSE sliced.value

\* the keys _format_metadata looks for, with the label of the line each adds
MetadataLabels ==
    << Item("file_name", "Filename"), Item("file_extension", "File Extension"),
       Item("file_size_bytes", "File Size"), Item("width", "Dimensions"),
       Item("date_taken", "Date Taken (EXIF)"), Item("date_created", "File Created"),
       Item("date_modified", "File Modified"), Item("camera_make", "Camera Make"),
       Item("camera_model", "Camera Model"), Item("software", "Software"),
       Item("color_space", "Color Space"), Item("bit_depth", "Bit Depth"),
       Item("orientation", "Orientation"), Item("latitude", "GPS Coordinates"),
       Item("focal_length", "Focal Length"), Item("f_number", "F-Stop"),
       Item("iso", "ISO"), Item("exposure_time", "Exposure Time") >>

\* the line of a key is added: the metadata has the key (and height with
\* width, longitude with latitude)
HasLine(metadata, key) ==
    /\ DictHas(metadata.items, key)
    /\ key = "width" => DictHas(metadata.items, "height")
    /\ key = "latitude" => DictHas(metadata.items, "longitude")

\* formatting the line of a key raises: the size is divided by 1024 * 1024,
\* the height is compared with 0 and, when above, divides the width
LineRaises(metadata, key) ==
    CASE key = "file_size_bytes" -> DictGet(metadata.items, key).t # "num"
      [] key = "width" ->
           LET width == DictGet(metadata.items, "width")
               height == DictGet(metadata.items, "height")
           IN \/ height.t # "num"
              \/ height.n > 0 /\ width.t # "num"
      [] OTHER -> FALSE

\* MetadataClassifier._format_metadata(metadata): the labels of the lines it
\* joins (the values it prints go to the LLM and nowhere else)
FormatMetadata(metadata) ==
    IF metadata.t # "dict" THEN [raised |-> "TypeError", lines |-> << >>]
    ELSE LET keys == SelectSeq(DictKeys(MetadataLabels), LAMBDA key : HasLine(metadata, key))
         IN IF \E k \in 1..Len(keys) : LineRaises(metadata, keys[k])
            THEN [raised |-> "TypeError", lines |-> << >>]
            ELSE [raised |-> None,
                  lines |-> [ k \in 1..Len(keys) |-> DictGet(MetadataLabels, keys[k]) ]
                            \o (IF HasLine(metadata, "width") THEN << "Aspect Ratio" >>
                                ELSE << >>)]

\* MetadataClassifier.classify_batch(metadata_list)
ClassifyBatch(list, response) ==
    LET formatted_batch == [ i \in 1..Len(list) |-> FormatMetadata(list[i]) ]
    IN IF \E i \in 1..Len(list) : formatted_batch[i].raised # None
       THEN ErrorResults(Len(list))
       ELSE IF response.kind = "failure"
       THEN ErrorResults(Len(list))
       ELSE ParseBatchResponse(response, Len(list))

(***************************************************************************)
(* Inputs: metadata and LLM responses                                      *)
(***************************************************************************)
\* the metadata of a camera photo, of an image without any, one whose width
\* is no number, and None in place of a dictionary
SampleMetadata ==
    { JDict(<< Item("file_name", JStr("IMG_1234.jpg")), Item("width", JNum(4000)),
               Item("height", JNum(3000)), Item("camera_make", JStr("Canon")) >>),
      JDict(<< >>),
      JDict(<< Item("width", JStr("a")), Item("height", JNum(1)) >>),
      JNull }

\* what the LLM puts in its array: a complete result, an empty object, a
\* result whose category is none of the three, and a string
SampleAnswers ==
    { JDict(<< Item("category", JStr("photo")), Item("confidence", JNum(900)),
               Item("reasoning", JStr("camera metadata")) >>),
      JDict(<< >>),
      JDict(<< Item("category", JStr("Screenshot")), Item("confidence", JNum(700)) >>),
      JStr("photo") }

\* a call classifies at most MaxImages images, and the LLM answers with an
\* array of at most MaxAnswers results
MaxImages == 2
MaxAnswers == 3

RECURSIVE SeqsOfLen(_, _)
SeqsOfLen(S, n) ==
    IF n = 0 THEN { << >> }
    ELSE UNION { { Append(q, x) : x \in S } : q \in SeqsOfLen(S, n - 1) }

MetadataLists == UNION { SeqsOfLen(SampleMetadata, n) : n \in 0..MaxImages }

\* JSON texts that are no array of objects
OtherBodies ==
    { JDict(<< >>),
      JDict(<< Item("category", JStr("photo")), Item("confidence", JNum(900)) >>),
      JStr(""), JStr("photo"), JNum(3), JNull, Garbage }

\* a body between markdown fences, as LLMs answer
Fenced ==
    UNION { { Content(Fence \o "json\n", body, "\n" \o Fence),
              Content(Fence \o "\n", body, "\n" \o Fence),
              Content(Fence \o "JSON\n", body, "\n" \o Fence),
              Content(" ", body, "\n") } :
            body \in { JList(<< >>), JStr(""),
                       JList(<< JDict(<< Item("category", JStr("screenshot")) >>) >>) } }

LlmResponses ==
    { ApiFailure, NoContent }
    \cup { Content("", JList(answers), "") :
             answers \in UNION { SeqsOfLen(SampleAnswers, n) : n \in 0..MaxAnswers } }
    \cup { Content("", body, "") : body \in OtherBodies }
    \cup Fenced

(***************************************************************************)
(* database_manager.py: the database and the scripts directory            *)
(***************************************************************************)
\* A database file is absent, or holds no tbl_version table, or a table
\* without a row, or a table whose first row holds Version.  applied lists
\* the scripts whose changes the file holds, in the order they were run.
NoDatabase == [kind |-> "absent", Version |-> 0, applied |-> << >>]
Database(kind, version) == [kind |-> kind, Version |-> version, applied |-> << >>]

\* int(): the value of a string of decimal digits
DigitValue(c) == CHOOSE d \in 0..9 : CharAt("0123456789", d + 1) = c
RECURSIVE ParseInt(_)
ParseInt(s) ==
    IF s = "" THEN 0
    ELSE 10 * ParseInt(SubSeq(s, 1, Len(s) - 1)) + DigitValue(CharAt(s, Len(s)))

\* the end of the longest run of digits of s that starts at i (i - 1 if none)
RECURSIVE DigitRunEnd(_, _)
DigitRunEnd(s, i) ==
    IF i <= Len(s) /\ CharAt(s, i) \in Digits THEN DigitRunEnd(s, i + 1) ELSE i - 1

ScriptPrefix == "DatabaseVersion_"
ScriptSuffix == ".sql"

\* Path.glob("DatabaseVersion_*.sql") yields the name (as on a file system
\* with case-sensitive names)
GlobMatches(name) ==
    /\ Len(name) >= Len(ScriptPrefix) + Len(ScriptSuffix)
    /\ SubSeq(name, 1, Len(ScriptPrefix)) = ScriptPrefix
    /\ SubSeq(name, Len(name) - Len(ScriptSuffix) + 1, Len(name)) = ScriptSuffix

\* re.compile(r'DatabaseVersion_(\d+)\.sql', re.IGNORECASE).match(name):
\* group 1 as a string, or None.  \d+ is greedy and "." is no digit, so the
\* group is the whole run of digits after the prefix.
PatternMatch(name) ==
    LET s == StrLower(name)
        p == StrLower(ScriptPrefix)
        first == Len(p) + 1
        last == DigitRunEnd(s, first)
    IN IF /\ Len(s) >= Len(p)
          /\ SubSeq(s, 1, Len(p)) = p
          /\ last >= first
          /\ last + Len(ScriptSuffix) <= Len(s)
          /\ SubSeq(s, last + 1, last + Len(ScriptSuffix)) = ScriptSuffix
       THEN SubSeq(s, first, last)
       ELSE None

\* scripts.sort(key=lambda x: x[0]): list.sort is stable
RECURSIVE InsertByVersion(_, _)
InsertByVersion(sorted, script) ==
    IF sorted = << >> THEN << script >>
    ELSE IF sorted[Len(sorted)].version <= script.version THEN Append(sorted, script)
    ELSE Append(InsertByVersion(SubSeq(sorted, 1, Len(sorted) - 1), script),
                sorted[Len(sorted)])

RECURSIVE SortByVersion(_)
SortByVersion(scripts) ==
    IF scripts = << >> THEN << >>
    ELSE InsertByVersion(SortByVersion(SubSeq(scripts, 1, Len(scripts) - 1)),
                         scripts[Len(scripts)])

\* the loop of get_sql_scripts over the names the glob yields, in its order
RECURSIVE ScriptsOf(_)
ScriptsOf(globbed) ==
    IF globbed = << >> THEN << >>
    ELSE LET rest == ScriptsOf(SubSeq(globbed, 1, Len(globbed) - 1))
             name == globbed[Len(globbed)]
             match == PatternMatch(name)
         IN IF match # None
            THEN Append(rest, [version |-> ParseInt(match), path |-> name])
            ELSE rest

\* get_sql_scripts(database_dir); globbed is the sequence
\* database_path.glob("DatabaseVersion_*.sql") yields
GetSqlScripts(dir, globbed) ==
    IF ~dir.exists THEN [raised |-> "FileNotFoundError", scripts |-> << >>]
    ELSE LET scripts == SortByVersion(ScriptsOf(globbed))
         IN IF scripts = << >>
            THEN [raised |-> "FileNotFoundError", scripts |-> << >>]
            ELSE [raised |-> None, scripts |-> scripts]

\* get_current_database_version(db_path)
GetCurrentDatabaseVersion(d) ==
    IF d.kind = "absent" THEN 0
    ELSE IF d.kind = "no_table" THEN 0
    ELSE IF d.kind = "no_row" THEN 0
    ELSE d.Version

\* faulty variant: versions from current_version on are run again
ScriptsToRun_FromCurrent(scripts, current_version) ==
    SelectSeq(scripts, LAMBDA s : s.version >= current_version)

\* scripts_to_run = [(v, p) for v, p in scripts if v > current_version]
ScriptsToRun(scripts, current_version) ==
    SelectSeq(scripts, LAMBDA s : s.version > current_version)

\* sqlite3.connect(db_path) creates the file when it is missing
Connected(d) == IF d.kind = "absent" THEN [ d EXCEPT !.kind = "no_table" ] ELSE d

\* faulty variant: a script that fails undoes the scripts run before it in
\* the same call
RunSqlScript_RollsBack(d, script, outcome, at_start) ==
    CASE outcome = "ok" ->
           [ ok |-> TRUE, db |-> [ Connected(d) EXCEPT !.applied = Append(@, script.path) ] ]
      [] outcome = "ok_records_version" ->
           [ ok |-> TRUE,
             db |-> [ kind |-> "row", Version |-> script.version,
                      applied |-> Append(d.applied, script.path) ] ]
      [] outcome = "unreadable" -> [ ok |-> FALSE, db |-> at_start ]
      [] outcome = "sql_error" -> [ ok |-> FALSE, db |-> at_start ]

\* run_sql_script(db_path, script_path, version).  The SQL of a script is
\* not part of the code: a script that succeeds leaves its changes in the
\* database and may record its number in tbl_version; a script fails because
\* it cannot be read (the database is not touched) or because SQLite raises.
\* at_start, the database at the start of the call, is not looked at.
RunSqlScript(d, script, outcome, at_start) ==
    CASE outcome = "ok" ->
           [ ok |-> TRUE, db |-> [ Connected(d) EXCEPT !.applied = Append(@, script.path) ] ]
      [] outcome = "ok_records_version" ->
           [ ok |-> TRUE,
             db |-> [ kind |-> "row", Version |-> script.version,
                      applied |-> Append(d.applied, script.path) ] ]
      [] outcome = "unreadable" -> [ ok |-> FALSE, db |-> d ]
      [] outcome = "sql_error" -> [ ok |-> FALSE, db |-> Connected(d) ]

ScriptOutcomes == { "ok", "ok_records_version", "unreadable", "sql_error" }

\* a scripts directory that does not exist, and one that holds names
NoDirectory == [exists |-> FALSE, names |-> {}]
Directory(names) == [exists |-> TRUE, names |-> names]

\* no call of create_or_update_database is in progress
NoMigration ==
    [ pc |-> "idle", db_at_start |-> NoDatabase, current_version |-> 0,
      scripts |-> << >>, scripts_to_run |-> << >>, executed |-> << >>, ret |-> None ]

(***************************************************************************)
(* samsung_tv/frame_uploader_test.py                                       *)
(***************************************************************************)
\* auto_upload_loop has not been called
NoUploadLoop == [ pc |-> "idle", attempt |-> 0, attempts |-> << >>, ret |-> None ]

\* the upload_thread of an attempt with its two result cells: the attempt
\* has started none, or do_upload is in art.upload before or after the TV
\* has the image, or do_upload has finished
NoThread == [ pc |-> "not_started", upload_result |-> None, upload_error |-> None ]
StartedThread == [ pc |-> "upload", upload_result |-> None, upload_error |-> None ]

\* upload_thread.is_alive()
IsAlive(thread) == thread.pc \in { "upload", "sent" }

\* the except clause of attempt_upload, lines 215-234: an error text with
\* ms.remote.touchEnable or 'event' counts as a success
ExceptReturns(error) == error = "event"

\* faulty variant: the loop goes on after an attempt that succeeded
AfterAttempt_IgnoresSuccess(loop, result, max_retries) ==
    LET made == [ loop EXCEPT !.attempts = Append(@, result) ]
    IN IF loop.attempt < max_retries THEN [ made EXCEPT !.pc = "sleep" ]
       ELSE [ made EXCEPT !.pc = "return", !.ret = result ]

\* lines 280-295: what auto_upload_loop does with the value attempt_upload
\* returned
AfterAttempt(loop, result, max_retries) ==
    LET made == [ loop EXCEPT !.attempts = Append(@, result) ]
    IN IF result THEN [ made EXCEPT !.pc = "return", !.ret = TRUE ]
       ELSE IF loop.attempt < max_retries THEN [ made EXCEPT !.pc = "sleep" ]
       ELSE [ made EXCEPT !.pc = "return", !.ret = FALSE ]

\* lines 191-213: what attempt_upload returns once join has returned
JoinResult(thread) ==
    IF IsAlive(thread) THEN FALSE
    ELSE IF thread.upload_error # None THEN ExceptReturns(thread.upload_error)
    ELSE TRUE

\* the largest MAX_RETRIES (--retries) of a run
MaxRetries == 3

UploadEnvs ==
    [ has_token : BOOLEAN, reachable : BOOLEAN, image_ok : BOOLEAN,
      MAX_RETRIES : 0..MaxRetries ]

migrationVars == <<db, scripts_dir, migration, calls>>

\* a run that does not use the database manager
NoMigrationRun ==
    /\ db = NoDatabase
    /\ scripts_dir = NoDirectory
    /\ migration = NoMigration
    /\ calls = << >>

classifierVars == <<metadata_list, llm_response, batch_results, classifier_pc>>

\* a run that does not use the metadata classifier
NoClassifier ==
    /\ metadata_list = << >>
    /\ llm_response = ApiFailure
    /\ batch_results = JNull
    /\ classifier_pc = "idle"

uploadVars == <<upload_env, upload_loop, upload_threads, tv_images>>

\* a run that does not use the upload test
NoUpload ==
    /\ upload_env = [ has_token |-> FALSE, reachable |-> FALSE, image_ok |-> FALSE,
                      MAX_RETRIES |-> 0 ]
    /\ upload_loop = NoUploadLoop
    /\ upload_threads = << >>
    /\ tv_images = << >>

helperVars == <<migrationVars, classifierVars, uploadVars>>

\* a run of the screenshot detector alone
NoHelpers == NoMigrationRun /\ NoClassifier /\ NoUpload

detectorVars == <<fn, pc, image_path, has_pil, file, scores, ret, detector,
                  fs, history, image_paths, results>>

\* a run that does not use the screenshot detector
NoDetector ==
    /\ fn = "none"
    /\ pc = "idle"
    /\ image_path = ""
    /\ has_pil = TRUE
    /\ file = [kind |-> "absent"]
    /\ scores = NoArgs
    /\ ret = NotReturned
    /\ detector = None
    /\ fs = EmptyDict
    /\ history = << >>
    /\ image_paths = << >>
    /\ results = EmptyDict

(***************************************************************************)
(* Inputs: scripts directories and databases                               *)
(***************************************************************************)
\* the names a scripts directory may hold: scripts numbered with and without
\* leading zeros (two of them with the same number, and 10 after 2), a name
\* the glob yields and the pattern rejects, and another file
DirectoryNames ==
    { "DatabaseVersion_001.sql", "DatabaseVersion_2.sql", "DatabaseVersion_02.sql",
      "DatabaseVersion_10.sql", "DatabaseVersion_abc.sql", "notes.txt" }

\* a missing directory, directories without a script, and directories with
\* one script, with scripts in a row, and with two scripts of one number
Directories ==
    { NoDirectory,
      Directory({}),
      Directory({ "DatabaseVersion_abc.sql", "notes.txt" }),
      Directory({ "DatabaseVersion_001.sql" }),
      Directory({ "DatabaseVersion_001.sql", "DatabaseVersion_2.sql",
                  "DatabaseVersion_10.sql", "notes.txt" }),
      Directory({ "DatabaseVersion_001.sql", "DatabaseVersion_2.sql",
                  "DatabaseVersion_02.sql", "DatabaseVersion_abc.sql" }) }

\* the databases a run starts from
Databases ==
    { NoDatabase, Database("no_table", 0), Database("no_row", 0),
      Database("row", 0), Database("row", 1), Database("row", 2), Database("row", 10) }

\* a run makes at most MaxMigrationCalls calls of create_or_update_database
MaxMigrationCalls == 2

\* the orders in which a glob may yield the names of a set
RECURSIVE Orders(_)
Orders(names) ==
    IF names = {} THEN { << >> }
    ELSE UNION { { Append(o, n) : o \in Orders(names \ {n}) } : n \in names }

\* what a run of one call leaves untouched
sessionVars == <<fs, history, image_paths, results>>

\* a run that calls one entry point once on one path
NoSession ==
    /\ fs = EmptyDict
    /\ history = << >>
    /\ image_paths = << >>
    /\ results = EmptyDict

\* detector.detect_screenshot(image_path)
Init ==
    /\ fn = "detect_screenshot"
    /\ pc = "call"
    /\ image_path \in SamplePaths
    /\ \/ has_pil = TRUE /\ file \in SampleFiles
       \/ has_pil = FALSE /\ file \in { NoFile, Undecodable, ImageFile(1920, 1080, NoExif) }
    /\ (image_path = "" => file = NoFile)
    /\ scores = NoArgs
    /\ ret = NotReturned
    /\ detector = ScreenshotDetector
    /\ NoSession
    /\ NoHelpers

CallDetectScreenshot ==
    /\ fn = "detect_screenshot"
    /\ pc = "call"
    /\ ret' = DetectScreenshot(detector, image_path, has_pil, file)
    /\ pc' = "return"
    /\ UNCHANGED <<fn, image_path, has_pil, file, scores, detector, sessionVars, helperVars>>

Next == CallDetectScreenshot

Spec == Init /\ [][Next]_vars

\* a direct call of _analyze_filename(image_path)
InitFilename ==
    /\ fn = "_analyze_filename"
    /\ pc = "call"
    /\ image_path \in AllPaths
    /\ has_pil = TRUE
    /\ file = NoFile
    /\ scores = NoArgs
    /\ ret = NotReturned
    /\ detector = ScreenshotDetector
    /\ NoSession
    /\ NoHelpers

CallAnalyzeFilename ==
    /\ fn = "_analyze_filename"
    /\ pc = "call"
    /\ ret' = AnalyzeFilename(detector, image_path)
    /\ pc' = "return"
    /\ UNCHANGED <<fn, image_path, has_pil, file, scores, detector, sessionVars, helperVars>>

SpecFilename == InitFilename /\ [][CallAnalyzeFilename]_vars

\* a direct call of _analyze_resolution(image_path)
InitResolution ==
    /\ fn = "_analyze_resolution"
    /\ pc = "call"
    /\ image_path = "/fake/path/file.jpg"
    /\ \/ has_pil = TRUE /\ file \in AllSizes \cup { Undecodable, NoFile }
       \/ has_pil = FALSE /\ file \in { Undecodable, ImageFile(1920, 1080, NoExif) }
    /\ scores = NoArgs
    /\ ret = NotReturned
    /\ detector = ScreenshotDetector
    /\ NoSession
    /\ NoHelpers

CallAnalyzeResolution ==
    /\ fn = "_analyze_resolution"
    /\ pc = "call"
    /\ ret' = AnalyzeResolution(has_pil, file)
    /\ pc' = "return"
    /\ UNCHANGED <<fn, image_path, has_pil, file, scores, detector, sessionVars, helperVars>>

SpecResolution == InitResolution /\ [][CallAnalyzeResolution]_vars

\* a direct call of _analyze_metadata(image_path)
InitMetadata ==
    /\ fn = "_analyze_metadata"
    /\ pc = "call"
    /\ image_path = "/fake/path/file.jpg"
    /\ \/ /\ has_pil = TRUE
          /\ file \in { ImageFile(1920, 1080, e) : e \in GeneratedExifs }
                      \cup { CorruptExifFile(1920, 1080), Undecodable, NoFile }
       \/ /\ has_pil = FALSE
          /\ file \in { Undecodable,
                        ImageFile(1920, 1080, << Tag("Software", "Lightshot") >>) }
    /\ scores = NoArgs
    /\ ret = NotReturned
    /\ detector = ScreenshotDetector
    /\ NoSession
    /\ NoHelpers

CallAnalyzeMetadata ==
    /\ fn = "_analyze_metadata"
    /\ pc = "call"
    /\ ret' = AnalyzeMetadata(detector, has_pil, file)
    /\ pc' = "return"
    /\ UNCHANGED <<fn, image_path, has_pil, file, scores, detector, sessionVars, helperVars>>

SpecMetadata == InitMetadata /\ [][CallAnalyzeMetadata]_vars

\* a direct call of _calculate_final_confidence with three scores of [0, 1]
InitCombiner ==
    /\ fn = "_calculate_final_confidence"
    /\ pc = "call"
    /\ image_path = ""
    /\ has_pil = TRUE
    /\ file = NoFile
    /\ scores \in [ filename_score : ScoreValues, resolution_score : ScoreValues,
                    metadata_score : ScoreValues ]
    /\ ret = NotReturned
    /\ detector = ScreenshotDetector
    /\ NoSession
    /\ NoHelpers

CallCalculateFinalConfidence ==
    /\ fn = "_calculate_final_confidence"
    /\ pc = "call"
    /\ ret' = CalculateFinalConfidence(scores.filename_score, scores.resolution_score,
                                       scores.metadata_score)
    /\ pc' = "return"
    /\ UNCHANGED <<fn, image_path, has_pil, file, scores, detector, sessionVars, helperVars>>

SpecCombiner == InitCombiner /\ [][CallCalculateFinalConfidence]_vars

\* a call of detect_screenshot or a direct call of _calculate_final_confidence
InitConfidence == Init \/ InitCombiner

NextConfidence == CallDetectScreenshot \/ CallCalculateFinalConfidence

SpecConfidence == InitConfidence /\ [][NextConfidence]_vars

\* a session: calls of detect_screenshot, on one long-lived detector or
\* through the module-level function, while files come, go and change
InitSession ==
    /\ fn = "none"
    /\ pc = "idle"
    /\ image_path = ""
    /\ has_pil = TRUE
    /\ file = NoFile
    /\ scores = NoArgs
    /\ ret = NotReturned
    /\ detector = ScreenshotDetector
    /\ fs \in [ SessionPaths -> SessionFiles ]
    /\ history = << >>
    /\ image_paths = << >>
    /\ results = EmptyDict
    /\ NoHelpers

\* one more call, kept in history with the file it found
Called(on, path, result) ==
    /\ fn' = on
    /\ pc' = "return"
    /\ image_path' = path
    /\ file' = fs[path]
    /\ ret' = result
    /\ history' = Append(history, [ on |-> on, image_path |-> path,
                                    file |-> fs[path], result |-> result ])

\* detector.detect_screenshot(path) on the long-lived instance
CallMethod ==
    /\ Len(history) < MaxCalls
    /\ \E path \in DOMAIN fs :
          Called("ScreenshotDetector.detect_screenshot", path,
                 DetectScreenshot(detector, path, has_pil, fs[path]))
    /\ detector' = DetectorAfterCall(detector)
    /\ UNCHANGED <<has_pil, scores, fs, image_paths, results, helperVars>>

\* detect_screenshot(path), the module-level function
CallFunction ==
    /\ Len(history) < MaxCalls
    /\ \E path \in DOMAIN fs :
          Called("detect_screenshot", path, detect_screenshot(path, has_pil, fs[path]))
    /\ UNCHANGED <<has_pil, scores, detector, fs, image_paths, results, helperVars>>

\* the environment replaces, removes or creates the file at a path
FileChanges ==
    /\ \E path \in DOMAIN fs :
          \E f \in SessionFiles \ { fs[path] } : fs' = [ fs EXCEPT ![path] = f ]
    /\ UNCHANGED <<fn, pc, image_path, has_pil, file, scores, ret, detector,
                   history, image_paths, results, helperVars>>

NextSession == CallMethod \/ CallFunction \/ FileChanges

SpecSession == InitSession /\ [][NextSession]_vars

\* batch_detect_screenshots(image_paths)
InitBatch ==
    /\ fn = "batch_detect_screenshots"
    /\ pc = "call"
    /\ image_path = ""
    /\ has_pil = TRUE
    /\ file = NoFile
    /\ scores = NoArgs
    /\ ret = NotReturned
    /\ detector = None
    /\ fs \in [ BatchPaths -> BatchFiles ]
    /\ history = << >>
    /\ image_paths \in BatchLists
    /\ results = EmptyDict
    /\ NoHelpers

\* detector = ScreenshotDetector(); results = {}
BatchStart ==
    /\ fn = "batch_detect_screenshots"
    /\ pc = "call"
    /\ detector' = ScreenshotDetector
    /\ results' = EmptyDict
    /\ pc' = "loop"
    /\ UNCHANGED <<fn, image_path, has_pil, file, scores, ret, fs, history, image_paths, helperVars>>

\* one turn of "for image_path in image_paths"
BatchStep ==
    /\ fn = "batch_detect_screenshots"
    /\ pc = "loop"
    /\ Len(history) < Len(image_paths)
    /\ LET path == image_paths[Len(history) + 1]
           result == DetectScreenshot(detector, path, has_pil, fs[path])
       IN /\ image_path' = path
          /\ file' = fs[path]
          /\ results' = DictSet(results, path, result)
          /\ history' = Append(history, [ on |-> "ScreenshotDetector.detect_screenshot",
                                          image_path |-> path, file |-> fs[path],
                                          result |-> result ])
    /\ detector' = DetectorAfterCall(detector)
    /\ UNCHANGED <<fn, pc, has_pil, scores, ret, fs, image_paths, helperVars>>

\* return results
BatchReturn ==
    /\ fn = "batch_detect_screenshots"
    /\ pc = "loop"
    /\ Len(history) = Len(image_paths)
    /\ ret' = results
    /\ pc' = "return"
    /\ UNCHANGED <<fn, image_path, has_pil, file, scores, detector, fs, history,
                   image_paths, results, helperVars>>

NextBatch == BatchStart \/ BatchStep \/ BatchReturn

SpecBatch == InitBatch /\ [][NextBatch]_vars

(***************************************************************************)
(* Properties                                                              *)
(***************************************************************************)
(***************************************************************************)
(* Runs of create_or_update_database(db_path, database_scripts_dir)        *)
(***************************************************************************)
InitMigration ==
    /\ NoDetector
    /\ NoClassifier
    /\ NoUpload
    /\ db \in Databases
    /\ scripts_dir \in Directories
    /\ migration = NoMigration
    /\ calls = << >>

\* lines 118-147: the version is read, the scripts are listed and filtered.
\* get_sql_scripts raising ends the call in the except clause of line 174.
MigrationStart ==
    /\ migration.pc \in { "idle", "return" }
    /\ Len(calls) + (IF migration.pc = "return" THEN 1 ELSE 0) < MaxMigrationCalls
    /\ calls' = IF migration.pc = "return" THEN Append(calls, migration) ELSE calls
    /\ \E globbed \in Orders({ n \in scripts_dir.names : GlobMatches(n) }) :
          LET current_version == GetCurrentDatabaseVersion(db)
              listed == GetSqlScripts(scripts_dir, globbed)
              scripts_to_run == ScriptsToRun(listed.scripts, current_version)
              frame == [ pc |-> "loop", db_at_start |-> db,
                         current_version |-> current_version,
                         scripts |-> listed.scripts,
                         scripts_to_run |-> scripts_to_run,
                         executed |-> << >>, ret |-> None ]
          IN migration' =
                IF listed.raised # None
                THEN [ frame EXCEPT !.pc = "return", !.ret = FALSE ]
                ELSE IF scripts_to_run = << >>
                THEN [ frame EXCEPT !.pc = "return", !.ret = TRUE ]
                ELSE frame
    /\ UNCHANGED <<db, scripts_dir, detectorVars, classifierVars, uploadVars>>

\* lines 150-153: one round of the loop over scripts_to_run
MigrationRunScript ==
    /\ migration.pc = "loop"
    /\ Len(migration.executed) < Len(migration.scripts_to_run)
    /\ \E outcome \in ScriptOutcomes :
          LET script == migration.scripts_to_run[Len(migration.executed) + 1]
              run == RunSqlScript(db, script, outcome, migration.db_at_start)
              executed == Append(migration.executed,
                                 [ version |-> script.version, path |-> script.path,
                                   ok |-> run.ok ])
          IN /\ db' = run.db
             /\ migration' =
                   IF run.ok
                   THEN [ migration EXCEPT !.executed = executed ]
                   ELSE [ migration EXCEPT !.executed = executed,
                                           !.pc = "return", !.ret = FALSE ]
    /\ UNCHANGED <<scripts_dir, calls, detectorVars, classifierVars, uploadVars>>

\* lines 155-172: every script has run; the final version and the tables
\* are read and printed
MigrationFinish ==
    /\ migration.pc = "loop"
    /\ Len(migration.executed) = Len(migration.scripts_to_run)
    /\ migration' = [ migration EXCEPT !.pc = "return", !.ret = TRUE ]
    /\ UNCHANGED <<db, scripts_dir, calls, detectorVars, classifierVars, uploadVars>>

NextMigration == MigrationStart \/ MigrationRunScript \/ MigrationFinish

SpecMigration == InitMigration /\ [][NextMigration]_vars

(***************************************************************************)
(* Runs of MetadataClassifier.classify_batch(metadata_list)                *)
(***************************************************************************)
InitClassifier ==
    /\ NoDetector
    /\ NoMigrationRun
    /\ NoUpload
    /\ metadata_list \in MetadataLists
    /\ llm_response \in LlmResponses
    /\ batch_results = JNull
    /\ classifier_pc = "call"

CallClassifyBatch ==
    /\ classifier_pc = "call"
    /\ batch_results' = ClassifyBatch(metadata_list, llm_response)
    /\ classifier_pc' = "return"
    /\ UNCHANGED <<metadata_list, llm_response, detectorVars, migrationVars, uploadVars>>

SpecClassifier == InitClassifier /\ [][CallClassifyBatch]_vars

(***************************************************************************)
(* Runs of auto_upload_loop(image_path): the main thread and the upload    *)
(* threads attempt_upload starts                                           *)
(***************************************************************************)
InitUpload ==
    /\ NoDetector
    /\ NoMigrationRun
    /\ NoClassifier
    /\ upload_env \in UploadEnvs
    /\ upload_loop = [ NoUploadLoop EXCEPT !.pc = "start" ]
    /\ upload_threads = << >>
    /\ tv_images = << >>

notUploadVars == <<detectorVars, migrationVars, classifierVars>>

\* lines 254-277: the token, the connection, the image, the first round
UploadLoopStart ==
    /\ upload_loop.pc = "start"
    /\ upload_loop' =
          IF ~upload_env.has_token \/ ~upload_env.reachable \/ ~upload_env.image_ok
          THEN [ upload_loop EXCEPT !.pc = "return", !.ret = FALSE ]
          ELSE IF 1 <= upload_env.MAX_RETRIES
          THEN [ upload_loop EXCEPT !.pc = "attempt", !.attempt = 1 ]
          ELSE [ upload_loop EXCEPT !.pc = "return", !.ret = FALSE ]
    /\ UNCHANGED <<upload_env, upload_threads, tv_images, notUploadVars>>

\* attempt_upload, lines 146-190: the connection is opened and the upload
\* thread started, or an exception ends the attempt in the except clause
AttemptStarts ==
    /\ upload_loop.pc = "attempt"
    /\ \/ /\ upload_threads' = Append(upload_threads, StartedThread)
          /\ upload_loop' = [ upload_loop EXCEPT !.pc = "join" ]
       \/ \E error \in { "error", "event" } :
             /\ upload_threads' = Append(upload_threads, NoThread)
             /\ upload_loop' = AfterAttempt(upload_loop, ExceptReturns(error),
                                            upload_env.MAX_RETRIES)
    /\ UNCHANGED <<upload_env, tv_images, notUploadVars>>

\* do_upload, line 184: art.upload has sent the image and the TV has it
ThreadSends ==
    /\ upload_loop.pc # "return"
    /\ \E i \in 1..Len(upload_threads) :
          /\ upload_threads[i].pc = "upload"
          /\ upload_threads' = [ upload_threads EXCEPT ![i].pc = "sent" ]
          /\ tv_images' = Append(tv_images, i)
    /\ UNCHANGED <<upload_env, upload_loop, notUploadVars>>

\* do_upload, line 184: art.upload returns
ThreadReturns ==
    /\ upload_loop.pc # "return"
    /\ \E i \in 1..Len(upload_threads) :
          /\ upload_threads[i].pc = "sent"
          /\ upload_threads' = [ upload_threads EXCEPT ![i].pc = "finished",
                                                       ![i].upload_result = "content_id" ]
    /\ UNCHANGED <<upload_env, upload_loop, tv_images, notUploadVars>>

\* do_upload, lines 185-186: art.upload raises, before or after the TV has
\* the image
ThreadRaises ==
    /\ upload_loop.pc # "return"
    /\ \E i \in 1..Len(upload_threads), error \in { "error", "event" } :
          /\ IsAlive(upload_threads[i])
          /\ upload_threads' = [ upload_threads EXCEPT ![i].pc = "finished",
                                                       ![i].upload_error = error ]
    /\ UNCHANGED <<upload_env, upload_loop, tv_images, notUploadVars>>

\* attempt_upload, lines 191-234: join returns because the thread has
\* finished or because UPLOAD_TIMEOUT has passed, and the attempt returns
AttemptJoins ==
    /\ upload_loop.pc = "join"
    /\ upload_loop' = AfterAttempt(upload_loop, JoinResult(upload_threads[upload_loop.attempt]),
                                   upload_env.MAX_RETRIES)
    /\ UNCHANGED <<upload_env, upload_threads, tv_images, notUploadVars>>

\* lines 286-288 and 277: the delay is over, the next round begins
RetryDelayEnds ==
    /\ upload_loop.pc = "sleep"
    /\ upload_loop' = [ upload_loop EXCEPT !.pc = "attempt", !.attempt = @ + 1 ]
    /\ UNCHANGED <<upload_env, upload_threads, tv_images, notUploadVars>>

\* the steps of the main thread
MainThread == UploadLoopStart \/ AttemptStarts \/ AttemptJoins \/ RetryDelayEnds

NextUpload == MainThread \/ ThreadSends \/ ThreadReturns \/ ThreadRaises

SpecUpload == InitUpload /\ [][NextUpload]_vars

\* the main thread keeps running: its calls return, the join at the latest
\* after UPLOAD_TIMEOUT and the sleep after RETRY_DELAY.  Nothing makes an
\* upload thread finish.
SpecUploadFair == SpecUpload /\ WF_vars(MainThread)

Returned(f) == pc = "return" /\ fn = f

\* the three scores detect_screenshot reports (when the file exists)
ScoresOf(r) == r.details.final_scores

----
C1_ReturnedConfidence == IF fn = "detect_screenshot" THEN ret.confidence ELSE ret

\* C1: the confidence detect_screenshot returns, and the value
\* _calculate_final_confidence returns for any three scores of [0, 1], is at
\* least 0.0 and at most 1.0.
C1_ConfidenceInRange ==
    pc = "return" => (C1_ReturnedConfidence >= 0 /\ C1_ReturnedConfidence <= 1000)

\* three scores of 1.0: the sum 1.2 is clamped to 1.0
C1_Witness ==
    /\ Returned("_calculate_final_confidence")
    /\ scores = [ filename_score |-> 1000, resolution_score |-> 1000,
                  metadata_score |-> 1000 ]
    /\ ret = 1000

----
----
\* C3: in every result of detect_screenshot, is_screenshot is True exactly
\* when the returned confidence is greater than 0.75, and a result with an
\* error has is_screenshot = False and confidence 0.0.
C3_VerdictIsThreshold ==
    Returned("detect_screenshot") =>
        /\ ret.is_screenshot <=> ret.confidence > 750
        /\ ret.details.error # None => (~ret.is_screenshot /\ ret.confidence = 0)

\* the lowest confidence above the threshold that the analyzers can produce
C3_Witness ==
    /\ Returned("detect_screenshot")
    /\ ret.is_screenshot
    /\ ret.confidence = 850

----
C4_Name == StrLower(basename(image_path))
C4_HasToolToken ==
    \E k \in 1..Len(SCREENSHOT_PATTERNS) : Search(SCREENSHOT_PATTERNS[k].re, C4_Name)
C4_HasDate == Search(DateRe, C4_Name)
C4_MatchesDatePattern ==
    \E k \in 1..Len(SCREENSHOT_DATE_PATTERNS) :
        Search(SCREENSHOT_DATE_PATTERNS[k].re, C4_Name)

----
\* what follows the last "/" of image_path, found without basename
C5_Basename ==
    LET cuts == { i \in 0..Len(image_path) : i = 0 \/ CharAt(image_path, i) = "/" }
        last == CHOOSE i \in cuts : \A k \in cuts : k <= i
    IN SubSeq(image_path, last + 1, Len(image_path))
\* how many patterns of a table are found in name
C5_Count(table, name) ==
    Cardinality({ k \in 1..Len(table) : Search(table[k].re, name) })
C5_Expected(dates, generics) ==
    IF dates >= 1 THEN << 950, "date_pattern" >>
    ELSE IF generics >= 2 THEN << 900, "multiple_patterns" >>
    ELSE IF generics = 1 THEN << 850, "single_pattern" >>
    ELSE << 0, "no_match" >>

----
C6_F == scores.filename_score
C6_R == scores.resolution_score
C6_M == scores.metadata_score

\* C6: when filename_score > 0.8 the final confidence is
\* min(1.0, filename_score + 0.1 * resolution_score + 0.1 * metadata_score); it
\* is never below the filename score, and a higher resolution or metadata
\* score never lowers it.
C6_FilenamePriority ==
    (Returned("_calculate_final_confidence") /\ C6_F > 800) =>
        /\ ret = Min(1000, (10 * C6_F + C6_R + C6_M) \div 10)
        /\ ret >= C6_F
        /\ \A r \in ScoreValues :
              r >= C6_R => CalculateFinalConfidence(C6_F, r, C6_M) >= ret
        /\ \A m \in ScoreValues :
              m >= C6_M => CalculateFinalConfidence(C6_F, C6_R, m) >= ret

\* 0.85 + 0.1 * 0.30 + 0.1 * 0.20 = 0.90, below the clamp
C6_Witness ==
    /\ Returned("_calculate_final_confidence")
    /\ scores = [ filename_score |-> 850, resolution_score |-> 300,
                  metadata_score |-> 200 ]
    /\ ret = 900

----
C7_High == Cardinality({ k \in 1..3 : << C6_F, C6_R, C6_M >>[k] > 500 })
C7_TieredBonus == IF C7_High = 3 THEN 150 ELSE IF C7_High = 2 THEN 100 ELSE 0

\* C7: when filename_score <= 0.8 the final confidence is
\* min(1.0, 0.5 * filename + 0.3 * resolution + 0.2 * metadata + bonus), where
\* the bonus is 0.15 if all three scores exceed 0.5, 0.10 if exactly two do,
\* and 0 otherwise.
C7_WeightedWithTieredBonus ==
    (Returned("_calculate_final_confidence") /\ C6_F <= 800) =>
        ret = Min(1000, ((5 * C6_F + 3 * C6_R + 2 * C6_M) \div 10) + C7_TieredBonus)

----
C8_R == ScoresOf(ret).resolution_score
C8_M == ScoresOf(ret).metadata_score
C8_Dir == SubSeq(image_path, 1, Len(image_path) - Len(basename(image_path)))
\* the same file under a name to which a date pattern has been added
C8_DatedPath == C8_Dir \o "screenshot_2024-01-27_" \o basename(image_path)

\* C8: for the resolution and metadata scores of any existing file, and a
\* filename score of 0.0, 0.85 or 0.90 (a name without a date pattern), the
\* final confidence for filename score 0.95 is at least the final confidence
\* returned; the same file under a name with a date pattern added scores 0.95
\* on its filename and has at least the same final confidence.
C8_DatePatternMonotone ==
    (Returned("detect_screenshot") /\ Exists(file)
        /\ ScoresOf(ret).filename_score \in { 0, 850, 900 }) =>
        LET dated == DetectScreenshot(detector, C8_DatedPath, has_pil, file)
        IN /\ CalculateFinalConfidence(950, C8_R, C8_M) >= ret.confidence
           /\ ScoresOf(dated).filename_score = 950
           /\ ScoresOf(dated).resolution_score = C8_R
           /\ ScoresOf(dated).metadata_score = C8_M
           /\ dated.confidence >= ret.confidence

\* no filename evidence, the highest resolution and metadata scores: 0.52
C8_Witness ==
    /\ Returned("detect_screenshot")
    /\ Exists(file)
    /\ image_path = "/fake/path/IMG_1234.jpg"
    /\ ScoresOf(ret).filename_score = 0
    /\ C8_R = 800
    /\ C8_M = 900
    /\ ret.confidence = 520
    /\ DetectScreenshot(detector, C8_DatedPath, has_pil, file).confidence = 1000

----
C9_W == file.width
C9_H == file.height
C9_Pairs(table) == { << table[k][1], table[k][2] >> : k \in 1..Len(table) }
C9_Desktop == << C9_W, C9_H >> \in C9_Pairs(DESKTOP_RESOLUTIONS)
C9_Mobile == << C9_W, C9_H >> \in C9_Pairs(MOBILE_RESOLUTIONS)
C9_Decoded == Returned("_analyze_resolution") /\ has_pil /\ file.kind = "image"

\* C9: for a decodable image, _analyze_resolution returns 0.80 when
\* (width, height) is an entry of the desktop table and 0.75 when it is an
\* entry of the mobile table, before any aspect-ratio bucket is looked at; a
\* pair that is in neither table as (width, height) is no exact match, even
\* when its transpose is in a table.
C9_ExactMatch ==
    C9_Decoded =>
        /\ C9_Desktop => (ret.score = 800
                            /\ ret.details.confidence_reason = "exact_desktop_match")
        /\ C9_Mobile => (ret.score = 750
                            /\ ret.details.confidence_reason = "exact_mobile_match")
        /\ (~C9_Desktop /\ ~C9_Mobile) =>
              /\ ret.score \notin { 750, 800 }
              /\ ret.details.resolution_match = None
              /\ ret.details.confidence_reason
                    \notin { "exact_desktop_match", "exact_mobile_match" }

\* 1024x768 is 4:3 and in the desktop table: 0.80, not 0.45
C9_Witness ==
    /\ C9_Decoded
    /\ C9_W = 1024 /\ C9_H = 768
    /\ ret.score = 800
    /\ ret.details.resolution_match = "Desktop: XGA"

----
\* the buckets, as inequalities between integers
C10_Is16_9 == C9_H > 0 /\ 100 * Abs(9 * C9_W - 16 * C9_H) < 9 * C9_H
C10_Is16_10 == C9_H > 0 /\ 100 * Abs(10 * C9_W - 16 * C9_H) < 10 * C9_H
C10_Is4_3 == C9_H > 0 /\ 100 * Abs(3 * C9_W - 4 * C9_H) < 3 * C9_H
C10_Extreme == C9_H = 0 \/ C9_W > 3 * C9_H \/ 10 * C9_W < 3 * C9_H
C10_Expected ==
    IF C10_Is16_9 THEN 600
    ELSE IF C10_Is16_10 THEN 550
    ELSE IF C10_Is4_3 THEN 450
    ELSE IF C10_Extreme THEN 100
    ELSE 300
C10_BucketsHit ==
    Cardinality({ b \in { "16_9", "16_10", "4_3", "extreme" } :
                    \/ (b = "16_9" /\ C10_Is16_9)
                    \/ (b = "16_10" /\ C10_Is16_10)
                    \/ (b = "4_3" /\ C10_Is4_3)
                    \/ (b = "extreme" /\ C10_Extreme) })

----
\* sub occurs somewhere in s
C11_Contains(s, sub) ==
    \E i \in 1..(Len(s) - Len(sub) + 1) : SubSeq(s, i, i + Len(sub) - 1) = sub
\* value names a screenshot tool, whatever the case of its letters
C11_NamesTool(value) ==
    \E k \in 1..Len(SoftwareNames) : C11_Contains(StrLower(value), SoftwareNames[k])
\* the EXIF of the file has a non-empty Software tag that names a screenshot tool
C11_ToolInSoftwareTag ==
    /\ has_pil
    /\ file.kind = "image"
    /\ file.exif_ok
    /\ \E k \in 1..Len(file.exif) :
          /\ file.exif[k].tag = "Software"
          /\ file.exif[k].value # ""
          /\ C11_NamesTool(file.exif[k].value)

\* C11: when the EXIF Software tag is non-empty and contains a screenshot-tool
\* name in any letter case, _analyze_metadata returns 0.90 with
\* screenshot_software_detected = True, whichever camera tags the EXIF holds
\* and wherever the Software tag comes in the iteration.
C11_SoftwareScore ==
    (Returned("_analyze_metadata") /\ C11_ToolInSoftwareTag) =>
        /\ ret.score = 900
        /\ ret.details.screenshot_software_detected = TRUE
        /\ ret.details.confidence_reason = "screenshot_software"

\* two camera tags are iterated before an upper-case tool name
C11_Witness ==
    /\ Returned("_analyze_metadata")
    /\ file.kind = "image"
    /\ file.exif = << Tag("Make", "Canon"), Tag("LensModel", "EF50mm"),
                      Tag("Software", "GREENSHOT 1.2") >>
    /\ ret.score = 900
    /\ ret.details.screenshot_software_detected = TRUE

----
\* the EXIF of the file has a non-empty camera tag
C12_CameraTag ==
    \E k \in 1..Len(file.exif) :
        /\ file.exif[k].tag \in { "Make", "Model", "LensModel", "LensMake" }
        /\ file.exif[k].value # ""
\* the EXIF of the file names no screenshot tool in a Software tag
C12_NoToolInSoftwareTag ==
    \A k \in 1..Len(file.exif) :
        file.exif[k].tag = "Software" =>
            \A n \in 1..Len(SoftwareNames) :
                ~Search(<< Lit(SoftwareNames[n]) >>, StrLower(file.exif[k].value))

\* C12: for an image PIL decodes, whose EXIF names no screenshot software,
\* _analyze_metadata returns 0.60 with has_exif = False when there is no EXIF,
\* 0.20 when a camera tag (Make, Model, LensModel, LensMake) is non-empty, and
\* 0.50 when there is EXIF without one; 0.0, 0.20, 0.50, 0.60 and 0.90 are the
\* only scores it returns.
C12_MetadataScore ==
    Returned("_analyze_metadata") =>
        /\ ret.score \in { 0, 200, 500, 600, 900 }
        /\ (has_pil /\ file.kind = "image" /\ file.exif_ok /\ C12_NoToolInSoftwareTag) =>
              IF file.exif = NoExif
              THEN ret.score = 600 /\ ret.details.has_exif = FALSE
              ELSE IF C12_CameraTag
              THEN ret.score = 200 /\ ret.details.has_exif = TRUE
              ELSE ret.score = 500 /\ ret.details.has_exif = TRUE

\* an EXIF whose only camera tag is empty, with the Software tag of an editor
C12_Witness ==
    /\ Returned("_analyze_metadata")
    /\ file.kind = "image"
    /\ file.exif = << Tag("Make", ""), Tag("Software", "Adobe Photoshop") >>
    /\ ~C12_CameraTag
    /\ ret.score = 500
    /\ ret.details.confidence_reason = "no_camera_info"

----
\* r is a dictionary that has every key of fields
C13_HasFields(r, fields) == r # EmptyDict /\ fields \subseteq DOMAIN r
\* the call went down a failure path: no file, or an analyzer could not
\* decode the image or read its EXIF
C13_Failure ==
    \/ ~Exists(file)
    \/ has_pil /\ file.kind = "undecodable"
    \/ has_pil /\ file.kind = "image" /\ ~file.exif_ok

\* C13 as stated: on every failure path detect_screenshot returns a details
\* object in which filename_analysis, resolution_analysis and
\* metadata_analysis each have the fields of their record, and
\* detection_method and error are present.
C13_FullyPopulated ==
    (Returned("detect_screenshot") /\ C13_Failure) =>
        /\ { "detection_method", "error" } \subseteq DOMAIN ret.details
        /\ C13_HasFields(ret.details.filename_analysis,
                { "filename", "patterns_matched", "date_patterns_matched",
                  "confidence_reason" })
        /\ C13_HasFields(ret.details.resolution_analysis,
                { "width", "height", "resolution_match", "aspect_ratio",
                  "confidence_reason" })
        /\ C13_HasFields(ret.details.metadata_analysis,
                { "has_exif", "has_camera_info", "software_info",
                  "screenshot_software_detected", "confidence_reason" })

----
\* the exception text an analyzer recorded in its sub-record, None if none
C14_Error(sub) == IF "error" \in DOMAIN sub THEN sub.error ELSE None
\* the final confidence for a filename score f and a resolution score r when
\* the metadata score is 0.0: at most one score is above 0.5, so no bonus
C14_Confidence(f, r) ==
    IF f > 800 THEN Min(1000, f + (r \div 10)) ELSE (5 * f + 3 * r) \div 10

\* C14: when Image.open cannot decode an existing file, the resolution and
\* the metadata analyzer each score 0.0 and record the exception text in their
\* own sub-record; when only the EXIF cannot be read, the metadata analyzer
\* does so and the resolution analyzer scores the image size as usual.  In
\* both cases the filename analyzer has run, the top-level error is None and
\* the confidence and verdict are computed from the three scores, so that a
\* name with a screenshot pattern still makes the file a screenshot.
C14_AnalyzerFailureIsLocal ==
    (Returned("detect_screenshot") /\ Exists(file) /\ has_pil) =>
        LET d == ret.details
            s == ScoresOf(ret)
            undecodable == file.kind = "undecodable"
            unreadable == file.kind = "image" /\ ~file.exif_ok
        IN /\ undecodable =>
                 /\ s.resolution_score = 0
                 /\ C14_Error(d.resolution_analysis) = OpenError
                 /\ s.metadata_score = 0
                 /\ C14_Error(d.metadata_analysis) = OpenError
           /\ unreadable =>
                 /\ s.metadata_score = 0
                 /\ C14_Error(d.metadata_analysis) = ExifError
                 /\ C14_Error(d.resolution_analysis) = None
                 /\ d.resolution_analysis.width = file.width
                 /\ d.resolution_analysis.confidence_reason # "no_pil"
           /\ (undecodable \/ unreadable) =>
                 /\ d.error = None
                 /\ d.filename_analysis.filename = StrLower(C5_Basename)
                 /\ s.filename_score > 0 <=> d.filename_analysis.patterns_matched # << >>
                 /\ ret.confidence = C14_Confidence(s.filename_score, s.resolution_score)
                 /\ ret.is_screenshot = (s.filename_score > 800)

\* an image of a desktop size whose EXIF cannot be read, named by a single
\* generic pattern: 0.85 + 0.1 * 0.80 + 0.1 * 0.0
C14_Witness ==
    /\ Returned("detect_screenshot")
    /\ has_pil
    /\ file = CorruptExifFile(1920, 1080)
    /\ image_path = "/fake/path/snip_001.png"
    /\ ret.details.metadata_analysis.error = ExifError
    /\ ScoresOf(ret).resolution_score = 800
    /\ ret.confidence = 930
    /\ ret.is_screenshot

----
C17_Methods == { "filename", "resolution", "resolution_metadata", "metadata", "heuristic" }

\* C17 as stated: the detection_method of every result of detect_screenshot
\* is one of filename, resolution, resolution_metadata, metadata, heuristic.
C17_MethodInEnum ==
    Returned("detect_screenshot") => ret.details.detection_method \in C17_Methods

----
\* the basenames of test_filename_patterns and the verdict it expects
C19_Expected ==
    [ n \in { "screenshot_2024-01-27.png", "Screen Shot 2024-01-27 at 10.30.45 AM.png",
              "capture_001.png", "snip_2024.png" } |-> TRUE ]
    @@ [ n \in { "IMG_1234.jpg", "vacation_photo.jpg", "family_dinner.png" } |-> FALSE ]

\* C19 as stated: for a path /fake/path/<name> at which no file exists,
\* detect_screenshot returns is_screenshot = True when the name matches a
\* screenshot pattern and False when it does not.
C19_DetectsByNameWithoutFile ==
    (Returned("detect_screenshot") /\ ~Exists(file)) =>
        \A n \in DOMAIN C19_Expected :
            image_path = "/fake/path/" \o n => ret.is_screenshot = C19_Expected[n]

----
\* C20 as stated: when an existing file's name matches no pattern (filename
\* score 0.0), some outcome of the resolution and metadata analyzers makes
\* detect_screenshot return is_screenshot = True for a file of that name.
C20_OtherLayersCanDecide ==
    (Returned("detect_screenshot") /\ Exists(file)
        /\ ScoresOf(ret).filename_score = 0) =>
        \E f \in SampleFiles :
            /\ Exists(f)
            /\ DetectScreenshot(detector, image_path, TRUE, f).is_screenshot

----
\* the lower-cased basename _analyze_filename has looked at
C18_Name == ret.details.filename
\* a tool token touches a date, with at most one "-", "_" or blank between
\* them, the token first or the date first
C18_Adjacent ==
    \E k \in 1..Len(SCREENSHOT_PATTERNS), gap \in { "sep", "space" } :
        \/ Search(SCREENSHOT_PATTERNS[k].re \o << Opt(gap) >> \o DateRe, C18_Name)
        \/ Search(DateRe \o << Opt(gap) >> \o SCREENSHOT_PATTERNS[k].re, C18_Name)

C18_DigitsAt(s, i, j) ==
    i <= j /\ j <= Len(s) /\ \A x \in i..j : CharAt(s, x) \in Digits
\* the positions right after a date that starts at s[i]: four digits, "-" or
\* "_", one or two digits, "-" or "_", one or two digits
C18_DateEnds(s, i) ==
    { e \in { i + 6 + a + b : a \in 1..2, b \in 1..2 } :
        /\ e - 1 <= Len(s)
        /\ \E a \in 1..2 :
              /\ i + 6 + a < e
              /\ C18_DigitsAt(s, i, i + 3)
              /\ CharAt(s, i + 4) \in { "-", "_" }
              /\ C18_DigitsAt(s, i + 5, i + 4 + a)
              /\ CharAt(s, i + 5 + a) \in { "-", "_" }
              /\ C18_DigitsAt(s, i + 6 + a, e - 1) }
\* the positions right after the word w that starts at s[i]
C18_WordEnds(s, i, w) ==
    IF i + Len(w) - 1 <= Len(s) /\ SubSeq(s, i, i + Len(w) - 1) = w
    THEN { i + Len(w) } ELSE { }
\* the positions right after "screen", white space or none, "shot" from s[i]
C18_ScreenShotEnds(s, i) ==
    { j + 4 : j \in { j \in (i + 6)..(Len(s) - 3) :
                        /\ SubSeq(s, i, i + 5) = "screen"
                        /\ \A x \in (i + 6)..(j - 1) : CharAt(s, x) \in WhiteSpace
                        /\ SubSeq(s, j, j + 3) = "shot" } }
\* s[i..j-1] has no line break
C18_SameLine(s, i, j) == \A x \in i..(j - 1) : CharAt(s, x) # "\n"
\* where a date starts in s
C18_DateStarts(s) == { d \in 1..Len(s) : C18_DateEnds(s, d) # { } }
\* "screenshot", "screen shot" or "capture" comes before a date, with any
\* text of the same line between them
C18_LeadingTokenThenDate ==
    LET s == C18_Name
        ends == UNION { C18_WordEnds(s, i, "screenshot") \cup C18_WordEnds(s, i, "capture")
                        \cup C18_ScreenShotEnds(s, i) : i \in 1..Len(s) }
    IN \E e \in ends, d \in C18_DateStarts(s) : e <= d /\ C18_SameLine(s, e, d)
\* "screenshot" comes after a date, with any text of the same line between them
C18_DateThenScreenshot ==
    LET s == C18_Name
        starts == { i \in 1..Len(s) : C18_WordEnds(s, i, "screenshot") # { } }
    IN \E d \in C18_DateStarts(s), i \in starts :
          \E e \in C18_DateEnds(s, d) : e <= i /\ C18_SameLine(s, e, i)

----
\* C15: two calls of detect_screenshot on the same path that find the same
\* file there return the same (is_screenshot, confidence, details), whether
\* they are made on one detector or each on a new one, whatever calls were
\* made and whatever files changed between them; a call leaves the detector
\* as __init__ built it.
C15_Deterministic ==
    /\ \A i \in 1..Len(history), j \in 1..Len(history) :
          (history[i].image_path = history[j].image_path
              /\ history[i].file = history[j].file)
          => history[i].result = history[j].result
    /\ detector = ScreenshotDetector

\* the long-lived detector is called twice on an existing file that it
\* classifies as a screenshot
C15_Witness ==
    /\ Len(history) = 2
    /\ history[1].on = "ScreenshotDetector.detect_screenshot"
    /\ history[2].on = "ScreenshotDetector.detect_screenshot"
    /\ history[1].image_path = history[2].image_path
    /\ history[1].file = history[2].file
    /\ Exists(history[1].file)
    /\ history[1].result.is_screenshot
    /\ history[2].result = history[1].result

----
\* the elements of a list without the later repetitions, in list order
RECURSIVE C16_FirstOccurrences(_)
C16_FirstOccurrences(l) ==
    IF l = << >> THEN << >>
    ELSE LET front == SubSeq(l, 1, Len(l) - 1)
             last == l[Len(l)]
         IN IF \E k \in 1..Len(front) : front[k] = last
            THEN C16_FirstOccurrences(front)
            ELSE Append(C16_FirstOccurrences(front), last)

\* C16: batch_detect_screenshots calls detect_screenshot on the paths in list
\* order, and returns a dictionary with exactly one entry for each distinct
\* path of the list, whose value is what detect_screenshot returns for that
\* path called alone, whatever the other paths of the list and their order.
C16_BatchIsSequential ==
    fn = "batch_detect_screenshots" =>
        /\ Len(history) <= Len(image_paths)
        /\ \A k \in 1..Len(history) : history[k].image_path = image_paths[k]
        /\ pc = "return" =>
              /\ Len(history) = Len(image_paths)
              /\ \A i \in 1..Len(ret), j \in 1..Len(ret) : ret[i].key = ret[j].key => i = j
              /\ { ret[k].key : k \in 1..Len(ret) }
                    = { image_paths[k] : k \in 1..Len(image_paths) }
              /\ DictKeys(ret) = C16_FirstOccurrences(image_paths)
              /\ \A k \in 1..Len(ret) :
                    ret[k].value = detect_screenshot(ret[k].key, has_pil, fs[ret[k].key])

\* a list that names one path twice around another; one of the files exists
C16_Witness ==
    /\ Returned("batch_detect_screenshots")
    /\ image_paths = << "/fake/path/screenshot_2024-01-27.png", "/fake/path/IMG_1234.jpg",
                        "/fake/path/screenshot_2024-01-27.png" >>
    /\ Exists(fs["/fake/path/screenshot_2024-01-27.png"])
    /\ ~Exists(fs["/fake/path/IMG_1234.jpg"])
    /\ Len(ret) = 2
    /\ DictGet(ret, "/fake/path/screenshot_2024-01-27.png").is_screenshot
    /\ DictGet(ret, "/fake/path/IMG_1234.jpg").details.error = "File not found"

----
\* the file is an image PIL decodes, no pattern matches its name, a camera
\* tag of its EXIF is non-empty and no Software tag names a screenshot tool
C21_RegularPhoto ==
    /\ has_pil
    /\ file.kind = "image"
    /\ file.exif_ok
    /\ ret.details.filename_analysis.patterns_matched = << >>
    /\ ret.details.filename_analysis.date_patterns_matched = << >>
    /\ C12_CameraTag
    /\ C12_NoToolInSoftwareTag

\* C21: an existing image whose filename matches no screenshot pattern and
\* whose EXIF carries camera information without screenshot software is
\* classified is_screenshot = False with a final confidence below 0.5,
\* whatever its resolution: the confidence is 0.3 * resolution_score + 0.04,
\* at most 0.28.
C21_PhotoIsNoScreenshot ==
    (Returned("detect_screenshot") /\ Exists(file) /\ C21_RegularPhoto) =>
        /\ ret.is_screenshot = FALSE
        /\ ret.confidence < 500
        /\ ret.confidence = (3 * ScoresOf(ret).resolution_score) \div 10 + 40

\* a camera photo saved at a desktop resolution: 0.3 * 0.80 + 0.2 * 0.20
C21_Witness ==
    /\ Returned("detect_screenshot")
    /\ image_path = "/fake/path/IMG_1234.jpg"
    /\ file = ImageFile(1920, 1080, << Tag("Make", "Canon"), Tag("Model", "EOS 80D") >>)
    /\ C21_RegularPhoto
    /\ ScoresOf(ret).resolution_score = 800
    /\ ret.confidence = 280
    /\ ~ret.is_screenshot

----
\* the dimensions test_dimension_analysis_common_resolutions lists as
\* screenshot dimensions
C22_ScreenDimensions == { <<1920, 1080>>, <<1366, 768>>, <<750, 1334>>, <<2560, 1440>> }

\* the size is an entry of one of the two resolution tables
C22_InATable(w, h) ==
    \/ \E k \in 1..Len(DESKTOP_RESOLUTIONS) :
          DESKTOP_RESOLUTIONS[k][1] = w /\ DESKTOP_RESOLUTIONS[k][2] = h
    \/ \E k \in 1..Len(MOBILE_RESOLUTIONS) :
          MOBILE_RESOLUTIONS[k][1] = w /\ MOBILE_RESOLUTIONS[k][2] = h

\* C22: the resolution analyzer scores each of 1920x1080, 1366x768, 750x1334
\* and 2560x1440 strictly above 0.3, and every size that is in neither
\* resolution table strictly below 0.7.
C22_TestedDimensions ==
    (Returned("_analyze_resolution") /\ has_pil /\ file.kind = "image") =>
        /\ << file.width, file.height >> \in C22_ScreenDimensions => ret.score > 300
        /\ ~C22_InATable(file.width, file.height) => ret.score < 700

----
\* one existing file for each detection method, with the verdict it gets
C23_Examples ==
    { [ path |-> "/fake/path/snip_001.png",
        file |-> ImageFile(4000, 3000, << Tag("Make", "Canon"), Tag("Model", "EOS 80D") >>),
        method |-> "filename", is_screenshot |-> TRUE ],
      [ path |-> "/fake/path/IMG_1234.jpg",
        file |-> ImageFile(1920, 1080, NoExif),
        method |-> "resolution_metadata", is_screenshot |-> FALSE ],
      [ path |-> "/fake/path/IMG_1234.jpg",
        file |-> ImageFile(1920, 1080, << Tag("Make", "Canon"), Tag("Model", "EOS 80D") >>),
        method |-> "resolution", is_screenshot |-> FALSE ],
      [ path |-> "/fake/path/IMG_1234.jpg",
        file |-> ImageFile(4000, 3000, << Tag("Software", "Lightshot") >>),
        method |-> "metadata", is_screenshot |-> FALSE ],
      [ path |-> "/fake/path/IMG_1234.jpg",
        file |-> ImageFile(4000, 3000, << Tag("Make", "Canon"), Tag("Model", "EOS 80D") >>),
        method |-> "heuristic", is_screenshot |-> FALSE ] }

\* C23: for every result of an existing file, detection_method is decided by
\* the first true condition of: filename_score > 0.8 ('filename'),
\* resolution_score > 0.6 and metadata_score > 0.5 ('resolution_metadata'),
\* resolution_score > 0.7 ('resolution'), metadata_score > 0.6 ('metadata'),
\* else 'heuristic'.  Each of the five values is the method of a file the
\* detector is called on, and the method is set whether or not the verdict
\* is_screenshot is True.
C23_MethodChain ==
    /\ { e.method : e \in C23_Examples }
          = { "filename", "resolution_metadata", "resolution", "metadata", "heuristic" }
    /\ \A e \in C23_Examples : e.path \in SamplePaths /\ e.file \in SampleFiles
    /\ (Returned("detect_screenshot") /\ Exists(file)) =>
          LET f == ScoresOf(ret).filename_score
              r == ScoresOf(ret).resolution_score
              m == ScoresOf(ret).metadata_score
              method == ret.details.detection_method
          IN /\ ret.details.error = None
             /\ f > 800 => method = "filename"
             /\ (f <= 800 /\ r > 600 /\ m > 500) => method = "resolution_metadata"
             /\ (f <= 800 /\ ~(r > 600 /\ m > 500) /\ r > 700) => method = "resolution"
             /\ (f <= 800 /\ ~(r > 600 /\ m > 500) /\ r <= 700 /\ m > 600)
                   => method = "metadata"
             /\ (f <= 800 /\ ~(r > 600 /\ m > 500) /\ r <= 700 /\ m <= 600)
                   => method = "heuristic"
             /\ \A e \in C23_Examples :
                   (has_pil /\ image_path = e.path /\ file = e.file) =>
                       /\ method = e.method
                       /\ ret.is_screenshot = e.is_screenshot

\* a desktop-sized image without EXIF and without a screenshot name: the
\* method is 'resolution_metadata' and the verdict is False (0.46)
C23_Witness ==
    /\ Returned("detect_screenshot")
    /\ has_pil
    /\ image_path = "/fake/path/IMG_1234.jpg"
    /\ file = ImageFile(1920, 1080, NoExif)
    /\ ScoresOf(ret).resolution_score = 800
    /\ ScoresOf(ret).metadata_score = 600
    /\ ret.details.detection_method = "resolution_metadata"
    /\ ~ret.is_screenshot

----
\* C24: for every existing file whose basename matches at least one generic
\* or date pattern, detect_screenshot returns is_screenshot = True with
\* detection_method 'filename', whatever the resolution and the metadata
\* analyzer return.
C24_FilenameSuffices ==
    (Returned("detect_screenshot") /\ Exists(file)
        /\ (ret.details.filename_analysis.patterns_matched # << >>
              \/ ret.details.filename_analysis.date_patterns_matched # << >>)) =>
        /\ ret.is_screenshot
        /\ ret.details.detection_method = "filename"
        /\ ret.confidence >= 850

\* a file named by a single generic pattern that PIL cannot decode (both
\* other analyzers score 0.0)
C24_Witness ==
    /\ Returned("detect_screenshot")
    /\ has_pil
    /\ image_path = "/fake/path/snip_001.png"
    /\ file = Undecodable
    /\ Len(ret.details.filename_analysis.patterns_matched) = 1
    /\ ret.details.filename_analysis.date_patterns_matched = << >>
    /\ ScoresOf(ret).resolution_score = 0
    /\ ScoresOf(ret).metadata_score = 0
    /\ ret.confidence = 850
    /\ ret.is_screenshot
    /\ ret.details.detection_method = "filename"

----
\* C25: in every metadata sub-record returned without an error for an image
\* PIL decodes, has_camera_info is True exactly when the EXIF holds a
\* non-empty Make, Model, LensModel or LensMake tag, also when screenshot
\* software was detected and the score is 0.90.
C25_CameraInfoRecorded ==
    (Returned("_analyze_metadata") /\ has_pil /\ file.kind = "image"
        /\ "error" \notin DOMAIN ret.details) =>
        (ret.details.has_camera_info <=> C12_CameraTag)

----
\* the number N of each DatabaseVersion_N.sql name a directory may hold
C26_Number ==
    [ n \in { "DatabaseVersion_001.sql", "DatabaseVersion_2.sql",
              "DatabaseVersion_02.sql", "DatabaseVersion_10.sql" } |->
        CASE n = "DatabaseVersion_001.sql" -> 1
          [] n = "DatabaseVersion_2.sql"   -> 2
          [] n = "DatabaseVersion_02.sql"  -> 2
          [] n = "DatabaseVersion_10.sql"  -> 10 ]

\* the DatabaseVersion_N.sql scripts of the scripts directory
C26_Scripts == scripts_dir.names \cap DOMAIN C26_Number

\* the version a database records: 0 when the file, the tbl_version table or
\* its row is missing
C26_Version(d) == IF d.kind = "row" THEN d.Version ELSE 0

\* the scripts whose number is greater than the version at the start of the call
C26_Pending(frame) == { n \in C26_Scripts : C26_Number[n] > C26_Version(frame.db_at_start) }

C26_ExecutedPaths(frame) == { frame.executed[k].path : k \in 1..Len(frame.executed) }

\* the call ran each script at most once, in ascending order of its number
C26_OnceAscending(frame) ==
    LET ex == frame.executed
    IN /\ \A i \in 1..Len(ex), j \in 1..Len(ex) : ex[i].path = ex[j].path => i = j
       /\ \A k \in 1..Len(ex) :
             ex[k].path \in DOMAIN C26_Number /\ ex[k].version = C26_Number[ex[k].path]
       /\ \A i \in 1..Len(ex), j \in 1..Len(ex) : i < j => ex[i].version <= ex[j].version

\* C26 as stated: a call that has returned has executed exactly the scripts
\* numbered above the version read at its start, once each in ascending
\* order, and has returned True without executing a script when there is no
\* such script.
C26_Original ==
    migration.pc = "return" =>
        /\ C26_ExecutedPaths(migration) = C26_Pending(migration)
        /\ C26_OnceAscending(migration)
        /\ C26_Pending(migration) = {} =>
              migration.executed = << >> /\ migration.ret = TRUE

\* C26 (amended): create_or_update_database executes scripts numbered above
\* the version read at the start of the call only, each at most once and in
\* ascending order of their number, and stops at the first one that fails;
\* when none fails it has executed exactly those scripts and returns True.
\* When the directory holds a script and none is numbered higher it executes
\* none and returns True; when the directory is missing or holds no script it
\* executes none and returns False.
C26_RunsPendingScripts ==
    migration.pc \in { "loop", "return" } =>
        LET ex == migration.executed
            pending == C26_Pending(migration)
            done == C26_ExecutedPaths(migration)
            failed == { k \in 1..Len(ex) : ~ex[k].ok }
        IN /\ migration.current_version = C26_Version(migration.db_at_start)
           /\ done \subseteq pending
           /\ C26_OnceAscending(migration)
           /\ \A n \in pending \ done : \A k \in 1..Len(ex) : ex[k].version <= C26_Number[n]
           /\ \A k \in failed : k = Len(ex) /\ migration.pc = "return"
           /\ migration.pc = "return" =>
                 /\ migration.ret \in BOOLEAN
                 /\ migration.ret = TRUE <=> (C26_Scripts # {} /\ failed = {})
                 /\ migration.ret = TRUE => done = pending
                 /\ (C26_Scripts # {} /\ pending = {}) =>
                       ex = << >> /\ migration.ret = TRUE
                 /\ C26_Scripts = {} => ex = << >> /\ migration.ret = FALSE

\* a database at version 1 and a directory with scripts 1, 2 and 02 and a
\* name the pattern rejects: the call has run the two scripts numbered 2
C26_Witness ==
    /\ migration.pc = "return"
    /\ migration.ret = TRUE
    /\ migration.db_at_start = Database("row", 1)
    /\ "DatabaseVersion_001.sql" \in scripts_dir.names
    /\ "DatabaseVersion_abc.sql" \in scripts_dir.names
    /\ Len(migration.executed) = 2
    /\ migration.executed[1].path = "DatabaseVersion_02.sql"
    /\ migration.executed[2].path = "DatabaseVersion_2.sql"
    /\ db.applied = << "DatabaseVersion_02.sql", "DatabaseVersion_2.sql" >>

----
\* the paths of the scripts a call ran with success, in the order it ran them
C27_Succeeded(frame) ==
    LET ok == SelectSeq(frame.executed, LAMBDA e : e.ok)
    IN [ k \in 1..Len(ok) |-> ok[k].path ]

\* a script of the call failed
C27_Failed(frame) == \E k \in 1..Len(frame.executed) : ~frame.executed[k].ok

\* the frames of the calls made so far, the current one last
C27_Frames == IF migration.pc = "idle" THEN calls ELSE Append(calls, migration)

\* C27: a call in which a script fails returns False and has executed no
\* script with a higher number; the database keeps the changes of the scripts
\* that succeeded before it (there is no rollback), and the next call reads
\* its version from that database and runs the scripts numbered above it.
C27_FailureStopsWithoutRollback ==
    /\ (migration.pc = "return" /\ C27_Failed(migration)) =>
          LET ex == migration.executed
          IN /\ migration.ret = FALSE
             /\ ~ex[Len(ex)].ok
             /\ \A k \in 1..Len(ex) : ex[k].version <= ex[Len(ex)].version
             /\ db.applied = migration.db_at_start.applied \o C27_Succeeded(migration)
    /\ \A c \in 1..(Len(C27_Frames) - 1) :
          LET failed == C27_Frames[c]
              later == C27_Frames[c + 1]
          IN C27_Failed(failed) =>
                /\ later.db_at_start.applied
                      = failed.db_at_start.applied \o C27_Succeeded(failed)
                /\ later.current_version = C26_Version(later.db_at_start)
                /\ \A k \in 1..Len(later.scripts_to_run) :
                      later.scripts_to_run[k].version > C26_Version(later.db_at_start)
                /\ \A k \in 1..Len(later.scripts) :
                      later.scripts[k].version > C26_Version(later.db_at_start)
                         => \E j \in 1..Len(later.scripts_to_run) :
                               later.scripts_to_run[j] = later.scripts[k]

\* a new database: the first call runs script 1, which records its version,
\* and fails in script 2; the second call starts from version 1 with script 2
C27_Witness ==
    /\ Len(calls) = 1
    /\ calls[1].db_at_start = NoDatabase
    /\ calls[1].ret = FALSE
    /\ Len(calls[1].executed) = 2
    /\ calls[1].executed[1].ok
    /\ ~calls[1].executed[2].ok
    /\ calls[1].executed[2].version = 2
    /\ migration.pc = "loop"
    /\ migration.current_version = 1
    /\ migration.db_at_start.applied = << "DatabaseVersion_001.sql" >>
    /\ migration.scripts_to_run[1].version = 2

----
\* C28: classify_batch returns, whatever the LLM call gives (an array of the
\* right length, with too few or too many results, results with missing or
\* invalid fields, text that is no JSON, an API failure), a list of exactly
\* len(metadata_list) results, each with a category that is one of 'photo',
\* 'screenshot' or 'unknown'.
C28_OneValidResultEach ==
    classifier_pc = "return" =>
        /\ batch_results.t = "list"
        /\ Len(batch_results.items) = Len(metadata_list)
        /\ \A k \in 1..Len(batch_results.items) :
              LET result == batch_results.items[k]
              IN /\ result.t = "dict"
                 /\ \E i \in 1..Len(result.items) :
                       /\ result.items[i].key = "category"
                       /\ result.items[i].value.t = "str"
                       /\ result.items[i].value.s \in { "photo", "screenshot", "unknown" }

(***************************************************************************)
(* C29                                                                     *)
(***************************************************************************)
\* the calls to attempt_upload so far, the one in progress included
C29_Calls == Len(upload_threads)

C29_PrechecksFail ==
    ~upload_env.has_token \/ ~upload_env.reachable \/ ~upload_env.image_ok

C29_SomeAttemptSucceeded ==
    \E i \in 1..Len(upload_loop.attempts) : upload_loop.attempts[i]

C29_Bounded ==
    /\ C29_Calls <= upload_env.MAX_RETRIES
    /\ \A i \in 1..Len(upload_loop.attempts) :
          upload_loop.attempts[i] => i = C29_Calls
    /\ upload_loop.pc = "return" =>
          /\ upload_loop.ret \in BOOLEAN
          /\ upload_loop.ret <=> C29_SomeAttemptSucceeded
    /\ C29_PrechecksFail =>
          /\ C29_Calls = 0
          /\ upload_loop.pc = "return" => upload_loop.ret = FALSE

C29_Returned == upload_loop.pc = "return"

\* C29: auto_upload_loop calls attempt_upload at most MAX_RETRIES times,
\* never again after a call that returned True, and returns True exactly
\* when some call returned True; without a token, a reachable TV or a
\* prepared image it makes no call and returns False; and every run of the
\* loop returns.
C29_RetriesBoundedAndLoopReturns == []C29_Bounded /\ <>C29_Returned

\* the first attempt timed out with its thread still running, the second
\* succeeded and the loop returned True after two calls
C29_Witness ==
    /\ upload_loop.pc = "return"
    /\ upload_loop.ret = TRUE
    /\ upload_loop.attempts = <<FALSE, TRUE>>
    /\ upload_env.MAX_RETRIES = 3
    /\ IsAlive(upload_threads[1])
    /\ C29_Calls = 2

(***************************************************************************)
(* C30                                                                     *)
(***************************************************************************)
\* C30: within one run of auto_upload_loop the TV receives the image at
\* most once, and never from an attempt that attempt_upload reported as
\* failed.
C30_DeliveredAtMostOnce ==
    /\ Len(tv_images) <= 1
    /\ \A i \in 1..Len(upload_loop.attempts) :
          ~upload_loop.attempts[i] =>
              \A k \in 1..Len(tv_images) : tv_images[k] # i
====
